---- MODULE Spec2Model ----
(***************************************************************************)
(* A model of rsc/gaby's persistence substrate and issue-tracker mirror:   *)
(* the key-value store (storage.DB, MemDB, the pebble wrapper), its named   *)
(* locks (MemLocker), the time-indexed layer (package timed: Set, Delete,   *)
(* DeleteRange, ScanAfter, Watcher, now) and the GitHub mirror              *)
(* (Client.SyncProject and syncIssueEvents).                                *)
(*                                                                         *)
(* Several specifications share the variables; each one moves only the      *)
(* variables of the subsystem it is about:                                  *)
(*   Spec      timed storage, batches and watchers over one DB              *)
(***************************************************************************)
EXTENDS Integers, Sequences, FiniteSets, TLC

(***************************************************************************)
(* Bounds of the model.                                                     *)
(***************************************************************************)
\* logical keys of the one kind that is modelled
NKeys == 2
\* largest DBTime the allocator may hand out (caps the number of Sets)
MaxTime == 3
\* batch objects obtained from db.Batch()
NBatches == 2
\* clients of one MemLocker
NClients == 3
\* lock names the clients use
NNames == 2
\* goroutines calling now() concurrently
NProcs == 2
\* operations the batch of specification SpecDB may have staged over its life
MaxStaged == 3
\* issue events GitHub creates for the project
MaxId == 3
\* issues of the project
NIssues == 2
\* events the /issues/events feed reaches back
FeedDepth == 2
\* operations one batch object may have staged over its life
MaxOps == 6
\* Watcher objects, all built with the same (db, kind, name)
NWatchers == 2
\* the staged-operation count above which the pebble batch applies itself in
\* MaybeApply; stands for the 100e6 bytes of pebble.go:194
MaybeApplyLimit == 3
NEvents == 2            \* mirrored events a Poster or Fixer is shown
NDocs == 3              \* document ids of the vector database
MaxDim == 2             \* longest vector
MaxCoord == 1           \* largest coordinate of a vector
MaxN == 2               \* largest n of a Search
MaxForeign == 1         \* vectors stored under another namespace of the DB
batchSize == 2          \* embeddocs.Sync's batchSize, scaled down from 100
NRows == 3              \* keys of the raw DB that can hold a row
MaxVecOps == 4          \* Sets one memVectorBatch may have staged on its DB batch
MaxRetries == 22        \* requests an HTTP call is followed through after rate-limit responses
MaxSkew == 3            \* minutes X-Ratelimit-Reset lies before or after the time of the response
RateLimitRetries == 20  \* "if nrate++; nrate > 20" of Client.get
ServerFailures == 3     \* "if nfail++; nfail < 3" of Client.get
MaxText == 2            \* longest plain text of a document, in tokens
MaxNodes == 2           \* inlines and code blocks of a document
MaxRepl == 2            \* longest replacement of a ReplaceText rule, in tokens
MaxRules == 2           \* rules added to a Fixer
MaxResults == 2         \* p.maxResults, as Poster.SetMaxResults sets it
SearchExtra == 5        \* "p.vdb.Search(vec, p.maxResults+5)"
NAdders == 2            \* goroutines calling Corpus.Add
NSetters == 2           \* goroutines calling memVectorDB.Set
MaxDepth == 3           \* inlines nested inside an inline of a document

Keys == 1..NKeys
Vals == {0}
Times == 1..MaxTime
Batches == 1..NBatches
Watchers == 1..NWatchers
Clients == 1..NClients
Names == 1..NNames
Procs == 1..NProcs
Ids == 1..MaxId
Issues == 1..NIssues

VARIABLES
    impl,       \* which storage.DB this is: "mem" (MemDB) or "pebble"
    data,       \* the rows of the DB: a function from physical keys to values
    ops,        \* ops[b]: the operations batch b holds
    nstaged,    \* nstaged[b]: operations staged on b since its last Apply (history)
    lastTime,   \* timed.lastTime, the last DBTime handed out by now()
    locks,      \* MemLocker.locks: lock name -> mutex identity
    mutexes,    \* mutex identity -> locked?
    wlocked,    \* wlocked[w]: Watcher.locked
    wpc,        \* wpc[w]: where the goroutine using watcher w is
    wmu,        \* wmu[w]: the mutex Watcher.lock is blocked on or holds
    wpos,       \* wpos[w]: last by-time key the iteration's db.Scan has passed
    wcur,       \* wcur[w]: the entry the loop body is holding
    emitted,    \* every <<key, modtime>> some Recent iteration has yielded (history)
    dupEmitted, \* TRUE once some <<key, modtime>> was yielded a second time (history)
    restarted,  \* TRUE once Restart has run (history)
    cpc,        \* cpc[c]: where client c of the MemLocker is: "idle", "wait", "held", "panicked"
    cname,      \* cname[c]: the lock name client c asked for
    cmu,        \* cmu[c]: the mutex client c got from the lock table
    npc,        \* npc[g]: where goroutine g is inside now(): "load", "clock", "cas"
    nold,       \* nold[g]: the value g loaded from lastTime
    nt,         \* nt[g]: the value g is about to store
    returned,   \* the values now() has returned, in the order of their CompareAndSwap (history)
    muW,        \* memDB.mu is held for writing
    apos,       \* index of the next operation of the Apply in progress, 0 when there is none
    committed,  \* the rows as they were when memDB.mu was last free of a writer (history)
    rpc,        \* where the reading goroutine is: "idle", "get", "locked", "yielded", "done"
    rlast,      \* the last key its Scan has yielded
    rseen,      \* the keys its Scan has yielded so far, in order
    rsnaps,     \* every committed state of the rows since its Scan began (history)
    rgot,       \* what its last Get returned: <<key, ok>>
    rissue,     \* GitHub: rissue[id] is the issue of event id, 0 while the event does not exist
    nextId,     \* GitHub: the id the next event gets
    nissues,    \* GitHub: the project has the issues 1..nissues
    EventID,    \* projectSync.EventID as stored in the database
    EventETag,  \* projectSync.EventETag as stored: the page answered with it, <<>> for ""
    FullSyncActive, \* projectSync.FullSyncActive as stored
    FullSyncIssue,  \* projectSync.FullSyncIssue as stored
    issueRows,  \* the issues with a stored "/issues" row
    events,     \* the stored "/issues/events" rows, <<issue, id>>
    spc,        \* where SyncProject is: "idle", "syncIssues", "setLatest", "syncIssues2", "loop", "incremental"
    result,     \* what the last SyncProject returned: "none", "ok", "error", "lost sync", "stopped"
    ranFull,    \* the current or last SyncProject went through the full scan (history)
    testFullSyncStop, \* the test hook is set
    downloads,  \* downloads[k]: how often the mirror has written event k (history)
    pevents,    \* the mirrored events a Poster or Fixer watches; the DBTime of pevents[t] is t
    pname,      \* pname[p]: Poster.name of the Poster goroutine p runs
    ppost,      \* ppost[p]: Poster.post
    ppc,        \* ppc[p]: where p is in Poster.Run: "idle", "loop", "consider", "posted"
    ppos,       \* ppos[p]: DBTime of the last event p's Recent iteration has yielded
    pcur,       \* pcur[n]: the stored cursor of the watcher "related.Poster:"+n
    plock,      \* plock[n]: the goroutine holding the lock of that watcher, 0 when free
    posted,     \* posted[i]: the row ("triage.Posted", project, i) exists
    posts,      \* posts[i]: comments PostIssueComment has put on issue i
    pbefore,    \* pbefore[p]: the issues that had a comment when p's Run began (history)
    fedit,      \* Fixer.edit
    fpc,        \* where the Fixer goroutine is in Fixer.Run: "idle", "loop"
    fpos,       \* DBTime of the last event the Fixer's Recent iteration has yielded
    fcur,       \* the stored cursor of the watcher "commentfix.Fixer:"+name
    edits,      \* edits[t]: edits made on GitHub for event t
    vstore,     \* the rows ("llm.Vector", namespace, id) of the DB: <<namespace, id>> -> vector
    vcache,     \* memVectorDB.cache of the vector database of namespace VNamespace: id -> vector
    vpc,        \* where Search is: "idle", "scan" (in the loop over the cache), "done"
    vtarget,    \* Search's target
    vn,         \* Search's n
    vtodo,      \* the ids of the cache the loop has not visited yet
    vbest,      \* the top.Top the loop fills: the best results so far, best first
    vfound,     \* what the last Search returned
    edocs,      \* the corpus holds the documents 1..edocs; document d has DBTime d
    ecur,       \* the stored cursor of the DocWatcher "embeddocs"
    evecs,      \* the ids that have a vector in the vector database
    epc,        \* where embeddocs.Sync is: "idle", "first" (loop), "second" (loop)
    epos,       \* DBTime of the last document the first loop's Recent has yielded
    ebatch,     \* Sync's ids (and batch): the documents collected and not yet flushed
    ecalls,     \* calls of embed.EmbedDocs made by the current Sync (history)
    elast,      \* the last EmbedDocs answer: <<len(vecs), err # nil, len(ids)>> (history)
    elog,       \* what the last flush logged with lg.Error
    eerr,       \* the batch of the first flush of the current Sync that got an error (history)
    estart,     \* the cursor and the newest document when the current or last Sync began (history)
    cadd,       \* the arguments of the last Corpus.Add: <<id, title and text>> (history)
    rop,        \* the last call on the raw DB: <<"set" | "scan" | "delrange", start, end>> (history)
    sfound,     \* the keys the last db.Scan yielded, in order
    disk,       \* the rows as they were at the last db.Flush
    wended,     \* wended[w]: how w's last Recent iteration ended: "", "exhausted", "break", "panic" (history)
    wcall,      \* wcall[w]: the last MarkOld, Restart or nested Recent of w's goroutine: <<call, t, outcome>> (history)
    wmark,      \* wmark[w]: the largest of the cursor at the start of w's iteration and the t of its MarkOlds (history)
    wseen,      \* wseen[w]: the <<key, modtime>> w's current or last iteration has yielded (history)
    wbase,      \* wbase[w]: the <<key, modtime>> of the entries stored when w's current or last iteration began (history)
    wfirst,     \* wfirst[w]: w's current or last iteration is the first since a Restart (history)
    fresh,      \* Restart has run and no iteration has begun since (history)
    mdoc,       \* the Markdown document a Fixer is given, parsed: a sequence of inlines and code blocks
    mrules,     \* Fixer.fixes, the rules in the order they were added
    mtrace,     \* the document before the first rule and after each rule of the last Fix (history)
    mfixed,     \* what the last Fix reported as fixed
    mcalls,     \* the calls of Fix made so far
    sres,       \* what the last timed.ScanAfter call yielded, NoScan once its caller is done with it
    vw,         \* memVectorBatch.w, the vectors to write: id -> vector
    vsb,        \* memVectorBatch.sb, the batch of the underlying DB: n Sets staged, leaving the rows id -> vector when applied
    vbpc,       \* where the batch's Apply is: "idle", "committed" (sb applied, db.mu not yet held), "copy" (db.mu held)
    vleft,      \* the ids of b.w the loop of Apply has not copied to the cache yet
    vpre,       \* the cache when the last Apply took db.mu (history)
    vlast,      \* b.w when the last Apply took db.mu (history)
    vget,       \* what the last Get returned: <<id, ok, vector>>
    vret,       \* the last call on the batch: "Set", "Apply", "MaybeApply true", "MaybeApply false" (history)
    hpc,        \* where the HTTP call is: "idle", "sent" (a request is out), "done"
    hmeth,      \* the call: "GET" (Client.get) or "POST" (Client.json, for POST and PATCH)
    hnrate,     \* nrate of Client.get
    hnfail,     \* nfail of Client.get
    hretries,   \* requests the call has sent again after a rate-limit response (history)
    hresp,      \* the last response: [code, limited, delta]
    hslept,     \* minutes the last rateLimit slept
    hbackoff,   \* seconds Client.get slept before its last retry of a server failure
    hres,       \* what the call returned: "", "ok", "not modified", "too many rate limits", "status"
    glive,      \* glive[i]: the body of issue (or comment) i on GitHub now
    fmarks,     \* the DBTimes Fixer.Run has called MarkOld with (history)
    flog,       \* what Fixer.Run logged for the last event: "", "commentfix stale", "commentfix rewrite"
    vspc,       \* vspc[g]: where goroutine g is in memVectorDB.Set, and the id and vector it was called with
    pskip,      \* pskip[n]: the DBTimes of the events a Run of the Poster named n left because the lookup or the post failed (history, kept in SpecSkip)
    apc,        \* apc[g]: 0, or the DBTime timed.Set took for the document goroutine g is adding with Corpus.Add, staged and not yet applied
    avis,       \* the DBTimes of the documents whose Add has been applied
    aclock,     \* the last value now() returned to an Add
    relfor,     \* the issue (its id in the vector database) Poster.Run built its last list of related issues for, 0 before the first
    rellist     \* the results that list holds, which the comment names in this order

timedVars == <<impl, data, ops, nstaged, lastTime>>
watcherVars == <<locks, mutexes, wlocked, wpc, wmu, wpos, wcur, emitted, dupEmitted, restarted>>
clientVars == <<cpc, cname, cmu>>
nowVars == <<npc, nold, nt, returned>>
rwVars == <<muW, apos, committed, rpc, rlast, rseen, rsnaps, rgot>>

\* what the timed storage and the watchers leave alone
remoteVars == <<rissue, nextId, nissues>>
projVars == <<EventID, EventETag, FullSyncActive, FullSyncIssue>>
syncVars == <<remoteVars, projVars, issueRows, events, spc, result, ranFull, testFullSyncStop>>
dedupVars == <<downloads>>
\* the state of the packages built on the storage
posterVars == <<pname, ppost, ppc, ppos, pcur, plock, posted, posts, pbefore>>
fixerVars == <<fedit, fpc, fpos, fcur, edits>>
runVars == <<pevents, posterVars, fixerVars>>
vectorVars == <<vstore, vcache, vpc, vtarget, vn, vtodo, vbest, vfound>>
embedVars == <<edocs, ecur, evecs, epc, epos, ebatch, ecalls, elast, elog, eerr, estart>>
corpusVars == <<cadd>>
rangeVars == <<rop, sfound>>
flushVars == <<disk, wended>>
callVars == <<wcall, wmark, wseen, wbase, wfirst, fresh>>
rewriteVars == <<mdoc, mrules, mtrace, mfixed, mcalls>>
scanVars == <<sres>>
vbatchVars == <<vw, vsb, vbpc, vleft, vpre, vlast, vget, vret>>
httpVars == <<hpc, hmeth, hnrate, hnfail, hretries, hresp, hslept, hbackoff, hres>>
staleVars == <<glive, fmarks, flog>>
vsetVars == <<vspc>>
skipVars == <<pskip>>
addVars == <<apc, avis, aclock>>
relVars == <<relfor, rellist>>
thirdVars == <<callVars, rewriteVars, scanVars, vbatchVars, httpVars, staleVars, vsetVars, skipVars, addVars, relVars>>
moreVars == <<runVars, vectorVars, embedVars, corpusVars, rangeVars, flushVars, thirdVars>>
laterVars == <<dedupVars, moreVars>>
otherVars == <<clientVars, nowVars, rwVars, syncVars, laterVars>>

vars == <<timedVars, watcherVars, clientVars, nowVars, rwVars, syncVars, laterVars>>

(***************************************************************************)
(* Ordered keys.  ordered.Encode yields byte strings whose order is the     *)
(* tuple order; a physical key is modelled as the tuple itself and          *)
(* compared lexicographically.  Inf is ordered.Inf, above every value.      *)
(***************************************************************************)
Inf == MaxTime + NKeys + 100

\* ordered.Encode(kind), ordered.Encode(kind+"ByTime"), ordered.Encode(kind+"Watcher")
KindP == 1
KindByTime == 2
KindWatcher == 3
\* the one watcher name in use
WName == 1

RECURSIVE LexLess(_, _)
LexLess(a, b) ==
    IF a = <<>> THEN b # <<>>
    ELSE IF b = <<>> THEN FALSE
    ELSE IF Head(a) # Head(b) THEN Head(a) < Head(b)
    ELSE LexLess(Tail(a), Tail(b))

LexLE(a, b) == a = b \/ LexLess(a, b)

PrimKey(k) == <<KindP, k>>
TimeKey(t, k) == <<KindByTime, t, k>>
WatcherKey == <<KindWatcher, WName>>

(***************************************************************************)
(* storage.DB: Get, Set, Delete, DeleteRange on the rows.                   *)
(***************************************************************************)
DBHas(d, key) == key \in DOMAIN d

DBSet(d, key, val) == [x \in DOMAIN d \cup {key} |-> IF x = key THEN val ELSE d[x]]

DBDelete(d, key) == [x \in DOMAIN d \ {key} |-> d[x]]

DBDeleteRange(d, lo, hi) ==
    [x \in {y \in DOMAIN d : ~(LexLE(lo, y) /\ LexLE(y, hi))} |-> d[x]]

\* the keys db.Scan(lo, hi) ranges over: lo <= key <= hi
ScanRange(d, lo, hi) == {y \in DOMAIN d : LexLE(lo, y) /\ LexLE(y, hi)}

\* the least key of a non-empty set of keys
MinKey(S) == CHOOSE x \in S : \A y \in S : LexLE(x, y)

(***************************************************************************)
(* storage.Batch: staged operations and their application in order.         *)
(***************************************************************************)
OpSet(key, val) == [op |-> "set", key |-> key, val |-> val, hi |-> <<>>]
OpDelete(key) == [op |-> "del", key |-> key, val |-> <<>>, hi |-> <<>>]
OpDeleteRange(lo, hi) == [op |-> "delrange", key |-> lo, val |-> <<>>, hi |-> hi]

ApplyOp(d, o) ==
    CASE o.op = "set" -> DBSet(d, o.key, o.val)
      [] o.op = "del" -> DBDelete(d, o.key)
      [] o.op = "delrange" -> DBDeleteRange(d, o.key, o.hi)

RECURSIVE ApplyOps(_, _)
ApplyOps(d, s) == IF s = <<>> THEN d ELSE ApplyOps(ApplyOp(d, Head(s)), Tail(s))

\* What the batch holds once Apply has returned: the pebble batch is Reset,
\* the memBatch keeps its ops slice as it was.
OpsAfterApply(i, s) == IF i = "pebble" THEN <<>> ELSE s

(***************************************************************************)
(* timed.now                                                                *)
(***************************************************************************)
\* the value now() settles on from the loaded lastTime and the clock reading
NowValueNoBump(old, c) == IF c < old THEN old + 1 ELSE c
NowValue(old, c) == IF c <= old THEN old + 1 ELSE c

(***************************************************************************)
(* Package timed: Set, Delete, DeleteRange stage their updates on a batch   *)
(* after consulting the rows currently in the DB.                           *)
(***************************************************************************)
\* the modtime stored in the primary row of k (the row must exist)
PrimTime(d, k) == d[PrimKey(k)][1]

\* the operations Set(db, b, kind, k, v) stages when now() returned t
SetOpsNoIndex(d, k, t, v) == <<OpSet(PrimKey(k), <<t, v>>)>>
SetOps(d, k, t, v) ==
    (IF DBHas(d, PrimKey(k)) THEN <<OpDelete(TimeKey(PrimTime(d, k), k))>> ELSE <<>>)
    \o <<OpSet(TimeKey(t, k), <<>>), OpSet(PrimKey(k), <<t, v>>)>>

\* the operations Delete(db, b, kind, k) stages
DeleteOps(d, k) ==
    IF ~DBHas(d, PrimKey(k)) THEN <<>>
    ELSE <<OpDelete(PrimKey(k)), OpDelete(TimeKey(PrimTime(d, k), k))>>

\* Batch.MaybeApply on a batch holding s, n of them staged since the last Apply:
\* the memBatch never applies, the pebble batch applies when it has grown
\* beyond its limit.  st is [d, s, n].
MaybeApply(i, st) ==
    IF i = "pebble" /\ Len(st.s) > MaybeApplyLimit
    THEN [d |-> ApplyOps(st.d, st.s), s |-> OpsAfterApply(i, st.s), n |-> 0]
    ELSE st

\* DeleteRange(db, b, kind, lo, hi): for every entry the scan of lo..hi yields,
\* in key order, stage the two deletes and call MaybeApply.  snap holds the rows
\* the scan reads.
RECURSIVE DeleteRangeFrom(_, _, _, _, _)
DeleteRangeFrom(i, snap, st, k, hi) ==
    IF k > hi THEN st
    ELSE IF ~DBHas(snap, PrimKey(k)) THEN DeleteRangeFrom(i, snap, st, k + 1, hi)
    ELSE DeleteRangeFrom(i, snap,
            MaybeApply(i, [d |-> st.d,
                           s |-> st.s \o <<OpDelete(PrimKey(k)),
                                           OpDelete(TimeKey(PrimTime(snap, k), k))>>,
                           n |-> st.n + 2]),
            k + 1, hi)

(***************************************************************************)
(* MemLocker: Lock looks the name's mutex up under l.mu, creating it when   *)
(* the name has none, and then blocks in mu.Lock.                           *)
(***************************************************************************)
MutexForAlwaysNew(l, m, name) == Cardinality(DOMAIN m) + 1
MutexFor(l, m, name) ==
    IF name \in DOMAIN l THEN l[name] ELSE Cardinality(DOMAIN m) + 1

LocksWith(l, name, id) == [x \in DOMAIN l \cup {name} |-> IF x = name THEN id ELSE l[x]]

MutexesWith(m, id) == [x \in DOMAIN m \cup {id} |-> IF x \in DOMAIN m THEN m[x] ELSE FALSE]

\* mu.Lock returns only while no one holds the mutex
MutexFreeAlways(m, id) == TRUE
MutexFree(m, id) == ~m[id]

(***************************************************************************)
(* Watcher                                                                  *)
(***************************************************************************)
\* Watcher.cutoff: the stored cursor, 0 when there is none
Cutoff(d) == IF DBHas(d, WatcherKey) THEN d[WatcherKey][1] ELSE 0

\* the by-time rows the iteration's db.Scan has still to pass
RowsAhead(d, pos) == {y \in DOMAIN d : LexLess(pos, y) /\ LexLE(y, <<KindByTime, Inf>>)}

NoEntry == <<>>

(***************************************************************************)
(* Specification Spec: clients stage timed updates on batches and apply     *)
(* them, and goroutines iterate Watcher.Recent, calling MarkOld(e.ModTime)  *)
(* for every entry they receive.                                            *)
(***************************************************************************)
InitTimed ==
    /\ data = <<>>
    /\ ops = [b \in Batches |-> <<>>]
    /\ nstaged = [b \in Batches |-> 0]
    /\ lastTime = 0
    /\ locks = <<>>
    /\ mutexes = <<>>
    /\ wlocked = [w \in Watchers |-> FALSE]
    /\ wpc = [w \in Watchers |-> "idle"]
    /\ wmu = [w \in Watchers |-> 0]
    /\ wpos = [w \in Watchers |-> <<>>]
    /\ wcur = [w \in Watchers |-> NoEntry]
    /\ emitted = {}
    /\ dupEmitted = FALSE
    /\ restarted = FALSE

InitClients ==
    /\ cpc = [c \in Clients |-> "idle"]
    /\ cname = [c \in Clients |-> 0]
    /\ cmu = [c \in Clients |-> 0]

InitNow ==
    /\ npc = [g \in Procs |-> "load"]
    /\ nold = [g \in Procs |-> 0]
    /\ nt = [g \in Procs |-> 0]
    /\ returned = <<>>

InitRW ==
    /\ muW = FALSE
    /\ apos = 0
    /\ committed = <<>>
    /\ rpc = "idle"
    /\ rlast = <<>>
    /\ rseen = <<>>
    /\ rsnaps = {}
    /\ rgot = <<>>

\* Client.Add: the project's sync state is the zero projectSync
InitProj ==
    /\ EventID = 0
    /\ EventETag = <<>>
    /\ FullSyncActive = FALSE
    /\ FullSyncIssue = 0
    /\ issueRows = {}
    /\ events = {}
    /\ spc = "idle"
    /\ result = "none"
    /\ ranFull = FALSE

InitSync ==
    /\ rissue = [id \in Ids |-> 0]
    /\ nextId = 1
    /\ nissues = 0
    /\ InitProj
    /\ testFullSyncStop = FALSE

InitRun ==
    /\ pevents = <<>>
    /\ pname = [p \in Procs |-> 1]
    /\ ppost = [p \in Procs |-> FALSE]
    /\ ppc = [p \in Procs |-> "idle"]
    /\ ppos = [p \in Procs |-> 0]
    /\ pcur = [n \in Names |-> 0]
    /\ plock = [n \in Names |-> 0]
    /\ posted = [i \in Issues |-> FALSE]
    /\ posts = [i \in Issues |-> 0]
    /\ pbefore = [p \in Procs |-> {}]
    /\ fedit = FALSE
    /\ fpc = "idle"
    /\ fpos = 0
    /\ fcur = 0
    /\ edits = [t \in 1..NEvents |-> 0]

InitVector ==
    /\ vstore = <<>>
    /\ vcache = <<>>
    /\ vpc = "idle"
    /\ vtarget = <<>>
    /\ vn = 0
    /\ vtodo = {}
    /\ vbest = <<>>
    /\ vfound = <<>>

InitEmbed ==
    /\ edocs = 0
    /\ ecur = 0
    /\ evecs = {}
    /\ epc = "idle"
    /\ epos = 0
    /\ ebatch = <<>>
    /\ ecalls = 0
    /\ elast = <<>>
    /\ elog = ""
    /\ eerr = <<>>
    /\ estart = <<0, 0>>

InitCalls ==
    /\ wcall = [w \in Watchers |-> <<>>]
    /\ wmark = [w \in Watchers |-> 0]
    /\ wseen = [w \in Watchers |-> {}]
    /\ wbase = [w \in Watchers |-> {}]
    /\ wfirst = [w \in Watchers |-> FALSE]
    /\ fresh = FALSE

\* a DB batch with nothing staged
NoSets == [n |-> 0, rows |-> <<>>]

InitVectorBatch ==
    /\ vw = <<>>
    /\ vsb = NoSets
    /\ vbpc = "idle"
    /\ vleft = {}
    /\ vpre = <<>>
    /\ vlast = <<>>
    /\ vget = <<>>
    /\ vret = ""

InitHTTP ==
    /\ hpc = "idle"
    /\ hmeth = "GET"
    /\ hnrate = 0
    /\ hnfail = 0
    /\ hretries = 0
    /\ hresp = <<>>
    /\ hslept = 0
    /\ hbackoff = 0
    /\ hres = ""

InitStale ==
    /\ glive = [i \in Issues |-> "teh"]
    /\ fmarks = {}
    /\ flog = ""

NotInSet == [pc |-> "idle", id |-> 0, vec |-> <<>>]

InitVSet == vspc = [g \in 1..NSetters |-> NotInSet]

InitAdd ==
    /\ apc = [g \in 1..NAdders |-> 0]
    /\ avis = {}
    /\ aclock = 0

InitRelated ==
    /\ relfor = 0
    /\ rellist = <<>>

InitLater ==
    /\ downloads = [k \in Keys |-> 0]
    /\ InitRun
    /\ InitVector
    /\ InitEmbed
    /\ cadd = <<>>
    /\ rop = <<>>
    /\ sfound = <<>>
    /\ disk = <<>>
    /\ wended = [w \in Watchers |-> ""]
    /\ InitCalls
    /\ sres = <<>>
    /\ InitVectorBatch
    /\ InitHTTP
    /\ InitStale
    /\ InitVSet
    /\ pskip = [n \in Names |-> {}]
    /\ InitAdd
    /\ InitRelated
    /\ mdoc = <<>>
    /\ mrules = <<>>
    /\ mtrace = <<>>
    /\ mfixed = FALSE
    /\ mcalls = 0

InitStorage ==
    /\ InitTimed
    /\ InitClients
    /\ InitNow
    /\ InitRW
    /\ InitLater

Init ==
    /\ impl \in {"mem", "pebble"}
    /\ InitStorage
    /\ InitSync

\* timed.Set(db, b, kind, k, v); c is the reading of time.Now() inside now()
TimedSet(b, k, v, c) ==
    LET t == NowValue(lastTime, c)
        new == SetOps(data, k, t, v)
    IN  /\ t <= MaxTime
        /\ Len(ops[b]) + Len(new) <= MaxOps
        /\ lastTime' = t
        /\ ops' = [ops EXCEPT ![b] = @ \o new]
        /\ nstaged' = [nstaged EXCEPT ![b] = @ + Len(new)]
        /\ UNCHANGED <<otherVars, impl, data, watcherVars>>

\* timed.Delete(db, b, kind, k)
TimedDelete(b, k) ==
    LET new == DeleteOps(data, k)
    IN  /\ new # <<>>
        /\ Len(ops[b]) + Len(new) <= MaxOps
        /\ ops' = [ops EXCEPT ![b] = @ \o new]
        /\ nstaged' = [nstaged EXCEPT ![b] = @ + Len(new)]
        /\ UNCHANGED <<otherVars, impl, data, lastTime, watcherVars>>

\* timed.DeleteRange(db, b, kind, lo, hi)
TimedDeleteRange(b, lo, hi) ==
    LET st == DeleteRangeFrom(impl, data,
                  [d |-> data, s |-> ops[b], n |-> nstaged[b]], lo, hi)
    IN  /\ lo <= hi
        /\ \E k \in lo..hi : DBHas(data, PrimKey(k))
        /\ Len(ops[b]) + 2 * Cardinality({k \in lo..hi : DBHas(data, PrimKey(k))}) <= MaxOps
        /\ data' = st.d
        /\ ops' = [ops EXCEPT ![b] = st.s]
        /\ nstaged' = [nstaged EXCEPT ![b] = st.n]
        /\ UNCHANGED <<otherVars, impl, lastTime, watcherVars>>

\* Batch.Apply
BatchApply(b) ==
    /\ ops[b] # <<>>
    /\ data' = ApplyOps(data, ops[b])
    /\ ops' = [ops EXCEPT ![b] = OpsAfterApply(impl, @)]
    /\ nstaged' = [nstaged EXCEPT ![b] = 0]
    /\ UNCHANGED <<otherVars, impl, lastTime, watcherVars>>

\* Watcher.lock as far as the call of mu.Lock inside db.Lock: the locked check,
\* then MemLocker.Lock's lookup of the mutex.  why is "lockRecent" or "lockRestart".
WatcherLockBegin(w, why) ==
    LET id == MutexFor(locks, mutexes, WatcherKey)
    IN  /\ wpc[w] = "idle"
        /\ ~wlocked[w]
        /\ locks' = LocksWith(locks, WatcherKey, id)
        /\ mutexes' = MutexesWith(mutexes, id)
        /\ wmu' = [wmu EXCEPT ![w] = id]
        /\ wpc' = [wpc EXCEPT ![w] = why]
        /\ UNCHANGED <<otherVars, impl, data, ops, nstaged, lastTime, wlocked, wpos, wcur,
                       emitted, dupEmitted, restarted>>

\* Recent: mu.Lock returns, locked is stored, and the cutoff is read for ScanAfter
RecentStart(w) ==
    /\ wpc[w] = "lockRecent"
    /\ MutexFree(mutexes, wmu[w])
    /\ mutexes' = [mutexes EXCEPT ![wmu[w]] = TRUE]
    /\ wlocked' = [wlocked EXCEPT ![w] = TRUE]
    /\ wpos' = [wpos EXCEPT ![w] = <<KindByTime, Cutoff(data) + 1>>]
    /\ wcur' = [wcur EXCEPT ![w] = NoEntry]
    /\ wpc' = [wpc EXCEPT ![w] = "scan"]
    /\ UNCHANGED <<otherVars, impl, data, ops, nstaged, lastTime, locks, wmu, emitted,
                   dupEmitted, restarted>>

\* the deferred Flush and unlock of Recent, and where the goroutine goes next
RecentEnd(w, next) ==
    /\ mutexes' = [mutexes EXCEPT ![locks[WatcherKey]] = FALSE]
    /\ wlocked' = [wlocked EXCEPT ![w] = FALSE]
    /\ wpc' = [wpc EXCEPT ![w] = next]

\* one round of ScanAfter's loop over the by-time rows
ScanAfterStep(w) ==
    /\ wpc[w] = "scan"
    /\ LET rows == RowsAhead(data, wpos[w])
           y == MinKey(rows)
           t == y[2]
           k == y[3]
       IN  IF rows = {}
           THEN /\ RecentEnd(w, "idle")
                /\ UNCHANGED <<otherVars, wpos, wcur, emitted, dupEmitted>>
           ELSE IF ~DBHas(data, PrimKey(k)) \/ t < PrimTime(data, k)
           THEN /\ wpos' = [wpos EXCEPT ![w] = y]
                /\ UNCHANGED <<otherVars, mutexes, wlocked, wpc, wcur, emitted, dupEmitted>>
           ELSE IF t > PrimTime(data, k)
           THEN /\ RecentEnd(w, "panicked")
                /\ UNCHANGED <<otherVars, wpos, wcur, emitted, dupEmitted>>
           ELSE /\ wpos' = [wpos EXCEPT ![w] = y]
                /\ wcur' = [wcur EXCEPT ![w] = <<k, t, data[PrimKey(k)][2]>>]
                /\ emitted' = emitted \cup {<<k, t>>}
                /\ dupEmitted' = (dupEmitted \/ <<k, t>> \in emitted)
                /\ wpc' = [wpc EXCEPT ![w] = "body"]
                /\ UNCHANGED <<otherVars, mutexes, wlocked>>
    /\ UNCHANGED <<otherVars, impl, data, ops, nstaged, lastTime, locks, wmu, restarted>>

\* the cursor row after MarkOld(t)
MarkOldAlways(d, t) == DBSet(d, WatcherKey, <<t>>)
MarkOld(d, t) == IF t <= Cutoff(d) THEN d ELSE DBSet(d, WatcherKey, <<t>>)

\* the loop body: w.MarkOld(e.ModTime)
BodyMarkOld(w) ==
    /\ wpc[w] = "body"
    /\ wlocked[w]
    /\ data' = MarkOld(data, wcur[w][2])
    /\ wpc' = [wpc EXCEPT ![w] = "scan"]
    /\ UNCHANGED <<otherVars, impl, ops, nstaged, lastTime, locks, mutexes, wlocked, wmu, wpos,
                   wcur, emitted, dupEmitted, restarted>>

\* the loop body breaks out of the iteration after its MarkOld
BodyBreak(w) ==
    /\ wpc[w] = "scan"
    /\ wcur[w] # NoEntry
    /\ RecentEnd(w, "idle")
    /\ UNCHANGED <<otherVars, impl, data, ops, nstaged, lastTime, locks, wmu, wpos, wcur,
                   emitted, dupEmitted, restarted>>

\* Watcher.Restart once mu.Lock returns: delete the cursor row, unlock
Restart(w) ==
    /\ wpc[w] = "lockRestart"
    /\ MutexFree(mutexes, wmu[w])
    /\ data' = DBDelete(data, WatcherKey)
    /\ wpc' = [wpc EXCEPT ![w] = "idle"]
    /\ restarted' = TRUE
    /\ UNCHANGED <<otherVars, impl, ops, nstaged, lastTime, locks, mutexes, wlocked, wmu, wpos,
                   wcur, emitted, dupEmitted>>

Next ==
    \/ \E b \in Batches, k \in Keys, v \in Vals, c \in {0, lastTime + 1} : TimedSet(b, k, v, c)
    \/ \E b \in Batches, k \in Keys : TimedDelete(b, k)
    \/ \E b \in Batches, lo \in Keys, hi \in Keys : TimedDeleteRange(b, lo, hi)
    \/ \E b \in Batches : BatchApply(b)

Spec == Init /\ [][Next]_vars

(***************************************************************************)
(* Specification SpecWatch: Sets staged on the batches and applied, while   *)
(* one Watcher iterates Recent and restarts.                                *)
(***************************************************************************)
NextWatch ==
    \/ \E b \in Batches, k \in Keys, v \in Vals, c \in {0, lastTime + 1} : TimedSet(b, k, v, c)
    \/ \E b \in Batches : BatchApply(b)
    \/ \E why \in {"lockRecent", "lockRestart"} : WatcherLockBegin(1, why)
    \/ RecentStart(1)
    \/ ScanAfterStep(1)
    \/ BodyMarkOld(1)
    \/ BodyBreak(1)
    \/ Restart(1)

SpecWatch == Init /\ [][NextWatch]_vars

(***************************************************************************)
(* Specification SpecExcl: several Watcher objects with the same (db, kind, *)
(* name), each used by its own goroutine, over entries written through one  *)
(* batch.                                                                   *)
(***************************************************************************)
NextExcl ==
    \/ \E k \in Keys, v \in Vals, c \in {0, lastTime + 1} : TimedSet(1, k, v, c)
    \/ BatchApply(1)
    \/ \E w \in Watchers, why \in {"lockRecent", "lockRestart"} : WatcherLockBegin(w, why)
    \/ \E w \in Watchers : RecentStart(w)
    \/ \E w \in Watchers : ScanAfterStep(w)
    \/ \E w \in Watchers : BodyMarkOld(w)
    \/ \E w \in Watchers : BodyBreak(w)
    \/ \E w \in Watchers : Restart(w)

SpecExcl == Init /\ [][NextExcl]_vars

(***************************************************************************)
(* Specification SpecDB: one goroutine stages operations on a memBatch and  *)
(* applies it, one operation at a time under memDB.mu, while another        *)
(* goroutine reads the same memDB with Get and Scan.                        *)
(***************************************************************************)
\* db.mu.RLock returns while no writer holds the lock
ReadLockFree(w) == ~w

\* db.mu.Lock returns while neither a writer nor a reader holds the lock
WriteLockFreeDespiteReaders(w, r) == ~w
WriteLockFree(w, r) == ~w /\ ~r

\* the reader holds db.mu for reading
ReaderIn == rpc \in {"get", "locked"}

\* the range the reader scans: every row of the kind
ScanLo == <<KindP>>
ScanHi == <<KindP, Inf>>

\* the keys of S in the order db.data.Scan visits them
RECURSIVE KeysInOrder(_)
KeysInOrder(S) ==
    IF S = {} THEN <<>> ELSE <<MinKey(S)>> \o KeysInOrder(S \ {MinKey(S)})

dbOthers == <<impl, lastTime, watcherVars, clientVars, nowVars, syncVars, laterVars>>

\* memBatch.Set
StageSet(k) ==
    /\ apos = 0
    /\ Len(ops[1]) < MaxStaged
    /\ ops' = [ops EXCEPT ![1] = Append(@, OpSet(PrimKey(k), <<>>))]
    /\ nstaged' = [nstaged EXCEPT ![1] = @ + 1]
    /\ UNCHANGED <<dbOthers, data, rwVars>>

\* memBatch.Delete
StageDelete(k) ==
    /\ apos = 0
    /\ Len(ops[1]) < MaxStaged
    /\ ops' = [ops EXCEPT ![1] = Append(@, OpDelete(PrimKey(k)))]
    /\ nstaged' = [nstaged EXCEPT ![1] = @ + 1]
    /\ UNCHANGED <<dbOthers, data, rwVars>>

\* memBatch.Apply: b.db.mu.Lock()
ApplyLock ==
    /\ apos = 0
    /\ ops[1] # <<>>
    /\ WriteLockFree(muW, ReaderIn)
    /\ muW' = TRUE
    /\ apos' = 1
    /\ UNCHANGED <<dbOthers, data, ops, nstaged, committed, rpc, rlast, rseen, rsnaps, rgot>>

\* memBatch.Apply: one op() of the loop over b.ops
ApplyStep ==
    /\ apos \in 1..Len(ops[1])
    /\ data' = ApplyOp(data, ops[1][apos])
    /\ apos' = apos + 1
    /\ UNCHANGED <<dbOthers, ops, nstaged, muW, committed, rpc, rlast, rseen, rsnaps, rgot>>

\* memBatch.Apply: the deferred b.db.mu.Unlock()
ApplyUnlock ==
    /\ apos = Len(ops[1]) + 1
    /\ muW' = FALSE
    /\ apos' = 0
    /\ ops' = [ops EXCEPT ![1] = OpsAfterApply(impl, @)]
    /\ nstaged' = [nstaged EXCEPT ![1] = 0]
    /\ committed' = data
    /\ rsnaps' = IF rpc \in {"locked", "yielded"} THEN rsnaps \cup {data} ELSE rsnaps
    /\ UNCHANGED <<dbOthers, data, rpc, rlast, rseen, rgot>>

\* memDB.Get: db.mu.RLock()
GetRLock(k) ==
    /\ rpc = "idle"
    /\ ReadLockFree(muW)
    /\ rpc' = "get"
    /\ rlast' = PrimKey(k)
    /\ UNCHANGED <<dbOthers, data, ops, nstaged, muW, apos, committed, rseen, rsnaps, rgot>>

\* memDB.Get: db.data.Get and db.mu.RUnlock()
GetRead ==
    /\ rpc = "get"
    /\ rgot' = <<rlast, DBHas(data, rlast)>>
    /\ rpc' = "idle"
    /\ UNCHANGED <<dbOthers, data, ops, nstaged, muW, apos, committed, rlast, rseen, rsnaps>>

\* memDB.Scan: the first db.mu.RLock()
ScanRLock ==
    /\ rpc = "idle"
    /\ ReadLockFree(muW)
    /\ rpc' = "locked"
    /\ rlast' = ScanLo
    /\ rseen' = <<>>
    /\ rsnaps' = {data}
    /\ UNCHANGED <<dbOthers, data, ops, nstaged, muW, apos, committed, rgot>>

\* memDB.Scan: one round of the loop over db.data.Scan(lo, hi), as far as the
\* yield (the lock released), or the end of the loop and the deferred RUnlock
ScanNext ==
    LET ahead == {y \in ScanRange(data, ScanLo, ScanHi) : LexLess(rlast, y)}
    IN  /\ rpc = "locked"
        /\ IF ahead = {}
           THEN /\ rpc' = "done"
                /\ UNCHANGED <<rlast, rseen>>
           ELSE /\ rpc' = "yielded"
                /\ rlast' = MinKey(ahead)
                /\ rseen' = Append(rseen, MinKey(ahead))
        /\ UNCHANGED <<dbOthers, data, ops, nstaged, muW, apos, committed, rsnaps, rgot>>

\* memDB.Scan: yield returned true, db.mu.RLock()
ScanResume ==
    /\ rpc = "yielded"
    /\ ReadLockFree(muW)
    /\ rpc' = "locked"
    /\ UNCHANGED <<dbOthers, data, ops, nstaged, muW, apos, committed, rlast, rseen, rsnaps, rgot>>

\* memDB.Scan: yield returned false, or the caller is done with a finished scan
ScanEnd ==
    /\ rpc \in {"yielded", "done"}
    /\ rpc' = "idle"
    /\ rseen' = <<>>
    /\ rsnaps' = {}
    /\ UNCHANGED <<dbOthers, data, ops, nstaged, muW, apos, committed, rlast, rgot>>

InitDB == Init /\ impl = "mem"

NextDB ==
    \/ \E k \in Keys : StageSet(k)
    \/ \E k \in Keys : StageDelete(k)
    \/ ApplyLock
    \/ ApplyStep
    \/ ApplyUnlock
    \/ \E k \in Keys : GetRLock(k)
    \/ GetRead
    \/ ScanRLock
    \/ ScanNext
    \/ ScanResume
    \/ ScanEnd

SpecDB == InitDB /\ [][NextDB]_vars

(***************************************************************************)
(* The GitHub mirror: SyncProject against a project whose issues and issue  *)
(* events GitHub creates, and deletes, while the mirror runs.               *)
(***************************************************************************)
SetMax(S) == CHOOSE x \in S : \A y \in S : y <= x
SetMin(S) == CHOOSE x \in S : \A y \in S : x <= y

\* the remote events that exist
Existing(r) == {id \in Ids : r[id] # 0}

RECURSIVE Descending(_)
Descending(S) ==
    IF S = {} THEN <<>> ELSE <<SetMax(S)>> \o Descending(S \ {SetMax(S)})

\* what /issues/events lists: the events by descending id, as far back as the
\* feed reaches
FeedOf(r) ==
    LET all == Descending(Existing(r))
    IN  SubSeq(all, 1, IF Len(all) < FeedDepth THEN Len(all) ELSE FeedDepth)

\* what /issues/n/events lists
IssueEvents(r, issue) == {<<issue, id>> : id \in {x \in Ids : r[x] = issue}}

\* syncIssueEvents with issue = 0: the walk over the listed events
WalkFeed(F, eventID, onlySetLatest) ==
    LET hits == {i \in 1..Len(F) : onlySetLatest \/ (eventID # 0 /\ F[i] <= eventID)}
        stop == IF hits = {} THEN 0 ELSE SetMin(hits)
    IN  [firstID |-> IF F = <<>> THEN 0 ELSE F[1],
         lastID  |-> IF F = <<>> THEN 0 ELSE IF stop = 0 THEN F[Len(F)] ELSE F[stop],
         stopped |-> stop # 0,
         written |-> {F[i] : i \in 1..(IF stop = 0 THEN Len(F) ELSE stop - 1)}]

\* the issues the full scan's loop over the stored rows has still to visit
IssuesAheadSkippingOne(rows, done) == {i \in rows : i > done + 1}
IssuesAhead(rows, done) == {i \in rows : i > done}

mirrorOthers == <<timedVars, watcherVars, clientVars, nowVars, rwVars, laterVars, testFullSyncStop>>

\* GitHub: a new issue
RemoteNewIssue ==
    /\ nissues < NIssues
    /\ nissues' = nissues + 1
    /\ UNCHANGED <<mirrorOthers, rissue, nextId, projVars, issueRows, events, spc, result, ranFull>>

\* GitHub: a new event on an issue
RemoteNewEvent(issue) ==
    /\ nextId <= MaxId
    /\ issue <= nissues
    /\ rissue' = [rissue EXCEPT ![nextId] = issue]
    /\ nextId' = nextId + 1
    /\ UNCHANGED <<mirrorOthers, nissues, projVars, issueRows, events, spc, result, ranFull>>

\* GitHub: an event disappears
RemoteDeleteEvent(id) ==
    /\ rissue[id] # 0
    /\ rissue' = [rissue EXCEPT ![id] = 0]
    /\ UNCHANGED <<mirrorOthers, nextId, nissues, projVars, issueRows, events, spc, result, ranFull>>

\* SyncProject returns err
SyncReturn(r) ==
    /\ spc' = "idle"
    /\ result' = r

\* SyncProject: lock, load the sync state
SyncStart ==
    /\ spc = "idle"
    /\ spc' = "syncIssues"
    /\ result' = "none"
    /\ ranFull' = FALSE
    /\ UNCHANGED <<mirrorOthers, remoteVars, projVars, issueRows, events>>

\* SyncProject: syncIssues and syncIssueComments, then the choice of the full
\* scan; an error leaves the rows of the pages read before it
SyncIssues(resp) ==
    /\ spc = "syncIssues"
    /\ IF resp = "error"
       THEN /\ \E n \in 0..nissues : issueRows' = issueRows \cup 1..n
            /\ SyncReturn("error")
            /\ UNCHANGED <<projVars, ranFull>>
       ELSE /\ issueRows' = issueRows \cup 1..nissues
            /\ UNCHANGED <<result, EventID, EventETag>>
            /\ IF EventID = 0 \/ FullSyncActive
               THEN /\ ranFull' = TRUE
                    /\ IF EventID = 0
                       THEN /\ FullSyncActive' = TRUE
                            /\ FullSyncIssue' = 0
                            /\ spc' = "setLatest"
                       ELSE /\ spc' = "syncIssues2"
                            /\ UNCHANGED <<FullSyncActive, FullSyncIssue>>
               ELSE /\ spc' = "incremental"
                    /\ UNCHANGED <<ranFull, FullSyncActive, FullSyncIssue>>
    /\ UNCHANGED <<mirrorOthers, remoteVars, events>>

\* "if issue == 0 && lastID != 0 && !stopped": the walk w read events and met
\* none at or below EventID
LostSyncNever(w) == FALSE
LostSync(w) == w.lastID # 0 /\ ~w.stopped

\* syncIssueEvents(proj, 0, onlySetLatest) and where SyncProject goes after it
FeedSync(onlySetLatest, resp, next) ==
    LET F == FeedOf(rissue)
        w == WalkFeed(F, EventID, onlySetLatest)
    IN  /\ resp = "304" => EventETag # <<>> /\ EventETag = F
        /\ IF resp = "error"
           THEN /\ SyncReturn("error")
                /\ UNCHANGED <<events, EventID, EventETag>>
           ELSE IF resp = "304"
           THEN /\ spc' = next
                /\ result' = IF next = "idle" THEN "ok" ELSE result
                /\ UNCHANGED <<events, EventID, EventETag>>
           ELSE /\ events' = events \cup {<<rissue[id], id>> : id \in w.written}
                /\ IF LostSync(w)
                   THEN /\ SyncReturn("lost sync")
                        /\ UNCHANGED <<EventID, EventETag>>
                   ELSE /\ EventID' = w.firstID
                        /\ EventETag' = IF w.firstID = 0 THEN <<>> ELSE F
                        /\ spc' = next
                        /\ result' = IF next = "idle" THEN "ok" ELSE result
        /\ UNCHANGED <<mirrorOthers, remoteVars, FullSyncActive, FullSyncIssue, issueRows, ranFull>>

\* SyncProject, full scan: syncIssueEvents(&proj, 0, true)
SetLatest(resp) ==
    /\ spc = "setLatest"
    /\ FeedSync(TRUE, resp, "syncIssues2")

\* SyncProject, full scan: the second syncIssues
SyncIssues2(resp) ==
    /\ spc = "syncIssues2"
    /\ IF resp = "error"
       THEN /\ \E n \in 0..nissues : issueRows' = issueRows \cup 1..n
            /\ SyncReturn("error")
       ELSE /\ issueRows' = issueRows \cup 1..nissues
            /\ spc' = "loop"
            /\ UNCHANGED result
    /\ UNCHANGED <<mirrorOthers, remoteVars, projVars, events, ranFull>>

\* SyncProject, full scan: one round of the loop over the stored rows, or its end
FullSyncLoop(resp) ==
    LET ahead == IssuesAhead(issueRows \cup {e[1] : e \in events}, FullSyncIssue)
    IN  /\ spc = "loop"
        /\ IF ahead = {}
           THEN /\ FullSyncActive' = FALSE
                /\ spc' = "incremental"
                /\ UNCHANGED <<events, FullSyncIssue, result>>
           ELSE IF resp = "error"
           THEN /\ SyncReturn("error")
                /\ UNCHANGED <<events, FullSyncIssue, FullSyncActive>>
           ELSE /\ events' = events \cup IssueEvents(rissue, SetMin(ahead))
                /\ FullSyncIssue' = SetMin(ahead)
                /\ IF testFullSyncStop
                   THEN SyncReturn("stopped")
                   ELSE UNCHANGED <<spc, result>>
                /\ UNCHANGED FullSyncActive
        /\ UNCHANGED <<mirrorOthers, remoteVars, EventID, EventETag, issueRows, ranFull>>

\* SyncProject: the incremental scan, syncIssueEvents(&proj, 0, false)
Incremental(resp) ==
    /\ spc = "incremental"
    /\ FeedSync(FALSE, resp, "idle")

InitMirror ==
    /\ impl = "mem"
    /\ InitStorage
    /\ rissue = [id \in Ids |-> 0]
    /\ nextId = 1
    /\ nissues = 0
    /\ InitProj
    /\ testFullSyncStop \in BOOLEAN

NextSync ==
    \/ RemoteNewIssue
    \/ \E issue \in Issues : RemoteNewEvent(issue)
    \/ \E id \in Ids : RemoteDeleteEvent(id)
    \/ SyncStart
    \/ \E resp \in {"ok", "error"} : SyncIssues(resp)
    \/ \E resp \in {"200", "304", "error"} : SetLatest(resp)
    \/ \E resp \in {"ok", "error"} : SyncIssues2(resp)
    \/ \E resp \in {"ok", "error"} : FullSyncLoop(resp)
    \/ \E resp \in {"200", "304", "error"} : Incremental(resp)

SpecSync == InitMirror /\ [][NextSync]_vars

(***************************************************************************)
(* Specification SpecResume: the loop of TestMarkdownIncrementalSync, which *)
(* runs SyncProject again until it returns nil, against a project that does *)
(* not change and a GitHub that answers every request; with the test hook   *)
(* set, every run stops after the first issue it absorbs.                   *)
(***************************************************************************)
InitResume ==
    /\ impl = "mem"
    /\ InitStorage
    /\ rissue \in [Ids -> 0..NIssues]
    /\ nextId = MaxId + 1
    /\ nissues = NIssues
    /\ InitProj
    /\ testFullSyncStop \in BOOLEAN

\* the test's loop calls Sync again unless the last call returned nil
SyncAgain ==
    /\ result # "ok"
    /\ SyncStart

NextResume ==
    \/ SyncAgain
    \/ SyncIssues("ok")
    \/ SetLatest("200")
    \/ SyncIssues2("ok")
    \/ FullSyncLoop("ok")
    \/ \E resp \in {"200", "304"} : Incremental(resp)

SpecResume == InitResume /\ [][NextResume]_vars /\ WF_vars(NextResume)

(***************************************************************************)
(* Specification SpecBehind: SyncProject is called again and again, GitHub  *)
(* answering every request, while issues and events are added; every call   *)
(* of SyncProject runs to its end.                                          *)
(***************************************************************************)
InitBehind == InitMirror /\ testFullSyncStop = FALSE

\* the steps of SyncProject
SyncSteps ==
    \/ SyncStart
    \/ SyncIssues("ok")
    \/ SetLatest("200")
    \/ SyncIssues2("ok")
    \/ FullSyncLoop("ok")
    \/ \E resp \in {"200", "304"} : Incremental(resp)

NextBehind ==
    \/ RemoteNewIssue
    \/ \E issue \in Issues : RemoteNewEvent(issue)
    \/ SyncSteps

SpecBehind == InitBehind /\ [][NextBehind]_vars /\ WF_vars(SyncSteps)

(***************************************************************************)
(* Specification SpecDedup: the mirror's passes over GitHub's pages write   *)
(* the events they meet, any event any number of times, each pass with a    *)
(* batch of its own.                                                        *)
(***************************************************************************)
\* writeEvent(b, ...) and the b.MaybeApply() that follows it
WriteEvent(k, c) ==
    LET t == NowValue(lastTime, c)
        new == SetOps(data, k, t, 0)
        st == MaybeApply(impl, [d |-> data, s |-> ops[1] \o new, n |-> nstaged[1] + Len(new)])
    IN  /\ t <= MaxTime
        /\ Len(ops[1]) + Len(new) <= MaxOps
        /\ lastTime' = t
        /\ data' = st.d
        /\ ops' = [ops EXCEPT ![1] = st.s]
        /\ nstaged' = [nstaged EXCEPT ![1] = st.n]
        /\ downloads' = [downloads EXCEPT ![k] = @ + 1]
        /\ UNCHANGED <<impl, watcherVars, clientVars, nowVars, rwVars, syncVars, moreVars>>

\* syncByDate: the b.Apply() after each page
PageApply ==
    /\ ops[1] # <<>>
    /\ data' = ApplyOps(data, ops[1])
    /\ ops' = [ops EXCEPT ![1] = OpsAfterApply(impl, @)]
    /\ nstaged' = [nstaged EXCEPT ![1] = 0]
    /\ UNCHANGED <<impl, lastTime, watcherVars, clientVars, nowVars, rwVars, syncVars, laterVars>>

\* the deferred b.Apply() of syncByDate and of syncIssueEvents; the next pass
\* starts with a new batch
PassEnd ==
    /\ ops[1] # <<>>
    /\ data' = ApplyOps(data, ops[1])
    /\ ops' = [ops EXCEPT ![1] = <<>>]
    /\ nstaged' = [nstaged EXCEPT ![1] = 0]
    /\ UNCHANGED <<impl, lastTime, watcherVars, clientVars, nowVars, rwVars, syncVars, laterVars>>

\* timed.ScanAfter(db, kind, t, nil): the keys it yields, in order; a by-time
\* row newer than its primary row makes it panic, shown as a final 0
RECURSIVE ScanAfterFrom(_, _)
ScanAfterFrom(d, pos) ==
    LET rows == RowsAhead(d, pos)
        y == MinKey(rows)
    IN  IF rows = {} THEN <<>>
        ELSE IF ~DBHas(d, PrimKey(y[3])) \/ y[2] < PrimTime(d, y[3])
        THEN ScanAfterFrom(d, y)
        ELSE IF y[2] > PrimTime(d, y[3]) THEN <<0>>
        ELSE <<y[3]>> \o ScanAfterFrom(d, y)

\* Client.EventsAfter(t, "")
EventsAfterNoSkip(d, t) ==
    LET q == KeysInOrder(RowsAhead(d, <<KindByTime, t + 1>>))
    IN  [i \in 1..Len(q) |-> q[i][3]]
EventsAfter(d, t) == ScanAfterFrom(d, <<KindByTime, t + 1>>)

NextDedup ==
    \/ \E k \in Keys, c \in {0, lastTime + 1} : WriteEvent(k, c)
    \/ PageApply
    \/ PassEnd

SpecDedup == Init /\ [][NextDedup]_vars

(***************************************************************************)
(* related.Poster.Run and commentfix.Fixer.Run over the mirrored events.   *)
(* Each walks its own watcher's Recent iteration; a Poster posts a comment *)
(* on GitHub and records it under ("triage.Posted", project, issue), a     *)
(* Fixer edits the text on GitHub.                                         *)
(***************************************************************************)
EventKinds == {"skip", "novec", "noresult", "match"}

runOthers == <<timedVars, watcherVars, clientVars, nowVars, rwVars, syncVars, dedupVars, vectorVars, embedVars, corpusVars, rangeVars, flushVars,
    thirdVars>>
runOthersButSkip == <<timedVars, watcherVars, clientVars, nowVars, rwVars, syncVars, dedupVars, vectorVars, embedVars, corpusVars, rangeVars, flushVars,
    callVars, rewriteVars, scanVars, vbatchVars, httpVars, staleVars, vsetVars,
    addVars,
    relVars>>

\* Watcher.MarkOld inside Run, which Run calls only "if p.post" / "if f.edit"
MarkOldRegardless(enabled, cur, t) == IF t <= cur THEN cur ELSE t

MarkOldIfEnabled(enabled, cur, t) == IF enabled /\ t > cur THEN t ELSE cur

\* p.db.Set(posted, nil)
SetPostedNothing(m, i) == m

SetPosted(m, i) == [m EXCEPT ![i] = TRUE]

\* the mirror stores one more event of issue i; what Run will find for it:
\* "skip" (project not enabled, not an open issue, too old, ignored),
\* "novec" (no vector stored), "noresult" (no similar issue), "match"
MirrorEvent(i, k) ==
    /\ Len(pevents) < NEvents
    /\ pevents' = Append(pevents, [issue |-> i, kind |-> k])
    /\ UNCHANGED <<posterVars, fixerVars, runOthers>>

\* related.New(lg, db, gh, vdb, docs, name)
NewPoster(p, n) ==
    /\ ppc[p] = "idle"
    /\ pname[p] # n
    /\ pname' = [pname EXCEPT ![p] = n]
    /\ ppost' = [ppost EXCEPT ![p] = FALSE]
    /\ UNCHANGED <<pevents, ppc, ppos, pcur, plock, posted, posts, pbefore, fixerVars, runOthers>>

EnablePosts(p) ==
    /\ ppc[p] = "idle"
    /\ ~ppost[p]
    /\ ppost' = [ppost EXCEPT ![p] = TRUE]
    /\ UNCHANGED <<pevents, pname, ppc, ppos, pcur, plock, posted, posts, pbefore, fixerVars, runOthers>>

\* Run reaches "for e := range p.watcher.Recent()": lock, read the cursor
PosterRecent(p) ==
    /\ ppc[p] = "idle"
    /\ fpc = "idle"
    /\ plock[pname[p]] = 0
    /\ plock' = [plock EXCEPT ![pname[p]] = p]
    /\ ppos' = [ppos EXCEPT ![p] = pcur[pname[p]]]
    /\ ppc' = [ppc EXCEPT ![p] = "loop"]
    /\ pbefore' = [pbefore EXCEPT ![p] = {i \in Issues : posts[i] > 0}]
    /\ UNCHANGED <<pevents, pname, ppost, pcur, posted, posts, fixerVars, runOthers>>

\* the iteration yields the next event and the body leaves it by a continue
\* before looking at the Posted row
PosterSkip(p) ==
    /\ ppc[p] = "loop"
    /\ ppos[p] < Len(pevents)
    /\ pevents[ppos[p] + 1].kind = "skip"
    /\ ppos' = [ppos EXCEPT ![p] = @ + 1]
    /\ UNCHANGED <<pevents, pname, ppost, ppc, pcur, plock, posted, posts, pbefore, fixerVars, runOthers>>

\* p.db.Get(posted) finds the row: continue
PosterAlreadyPosted(p) ==
    /\ ppc[p] = "loop"
    /\ ppos[p] < Len(pevents)
    /\ pevents[ppos[p] + 1].kind # "skip"
    /\ posted[pevents[ppos[p] + 1].issue]
    /\ ppos' = [ppos EXCEPT ![p] = @ + 1]
    /\ UNCHANGED <<pevents, pname, ppost, ppc, pcur, plock, posted, posts, pbefore, fixerVars, runOthers>>

\* p.db.Get(posted) finds no row: go on with the event
PosterConsider(p) ==
    /\ ppc[p] = "loop"
    /\ ppos[p] < Len(pevents)
    /\ pevents[ppos[p] + 1].kind # "skip"
    /\ ~posted[pevents[ppos[p] + 1].issue]
    /\ ppos' = [ppos EXCEPT ![p] = @ + 1]
    /\ ppc' = [ppc EXCEPT ![p] = "consider"]
    /\ UNCHANGED <<pevents, pname, ppost, pcur, plock, posted, posts, pbefore, fixerVars, runOthers>>

\* p.vdb.Get(u) fails: continue; skipped is pskip after the step
LookupFailed(p, skipped) ==
    /\ ppc[p] = "consider"
    /\ pevents[ppos[p]].kind = "novec"
    /\ ppc' = [ppc EXCEPT ![p] = "loop"]
    /\ pskip' = skipped
    /\ UNCHANGED <<pevents, pname, ppost, ppos, pcur, plock, posted, posts, pbefore, fixerVars, runOthersButSkip>>

PosterLookupFailed(p) == LookupFailed(p, pskip)

\* len(results) == 0: MarkOld if p.post, continue
PosterNoResults(p) ==
    /\ ppc[p] = "consider"
    /\ pevents[ppos[p]].kind = "noresult"
    /\ pcur' = [pcur EXCEPT ![pname[p]] = MarkOldIfEnabled(ppost[p], @, ppos[p])]
    /\ ppc' = [ppc EXCEPT ![p] = "loop"]
    /\ UNCHANGED <<pevents, pname, ppost, ppos, plock, posted, posts, pbefore, fixerVars, runOthers>>

\* the comment is logged; "if !p.post { continue }"
PosterDryRun(p) ==
    /\ ppc[p] = "consider"
    /\ pevents[ppos[p]].kind = "match"
    /\ ~ppost[p]
    /\ ppc' = [ppc EXCEPT ![p] = "loop"]
    /\ UNCHANGED <<pevents, pname, ppost, ppos, pcur, plock, posted, posts, pbefore, fixerVars, runOthers>>

\* p.github.PostIssueComment returns an error: continue; skipped is pskip
\* after the step
CommentFailed(p, skipped) ==
    /\ ppc[p] = "consider"
    /\ pevents[ppos[p]].kind = "match"
    /\ ppost[p]
    /\ ppc' = [ppc EXCEPT ![p] = "loop"]
    /\ pskip' = skipped
    /\ UNCHANGED <<pevents, pname, ppost, ppos, pcur, plock, posted, posts, pbefore, fixerVars, runOthersButSkip>>

PostFailed(p) == CommentFailed(p, pskip)

\* p.github.PostIssueComment returns nil: the comment is on GitHub
PostIssueComment(p) ==
    /\ ppc[p] = "consider"
    /\ pevents[ppos[p]].kind = "match"
    /\ ppost[p]
    /\ posts' = [posts EXCEPT ![pevents[ppos[p]].issue] = @ + 1]
    /\ ppc' = [ppc EXCEPT ![p] = "posted"]
    /\ UNCHANGED <<pevents, pname, ppost, ppos, pcur, plock, posted, pbefore, fixerVars, runOthers>>

\* p.db.Set(posted, nil); p.watcher.MarkOld(e.DBTime); the two Flush calls
PosterMarkPosted(p) ==
    /\ ppc[p] = "posted"
    /\ posted' = SetPosted(posted, pevents[ppos[p]].issue)
    /\ pcur' = [pcur EXCEPT ![pname[p]] = MarkOldIfEnabled(ppost[p], @, ppos[p])]
    /\ ppc' = [ppc EXCEPT ![p] = "loop"]
    /\ UNCHANGED <<pevents, pname, ppost, ppos, plock, posts, pbefore, fixerVars, runOthers>>

\* the iteration is exhausted: Recent unlocks, the deferred Flush, Run returns
PosterReturn(p) ==
    /\ ppc[p] = "loop"
    /\ ppos[p] = Len(pevents)
    /\ plock' = [plock EXCEPT ![pname[p]] = 0]
    /\ ppc' = [ppc EXCEPT ![p] = "idle"]
    /\ ppos' = [ppos EXCEPT ![p] = 0]
    /\ pbefore' = [pbefore EXCEPT ![p] = {}]
    /\ UNCHANGED <<pevents, pname, ppost, pcur, posted, posts, fixerVars, runOthers>>

EnableEdits ==
    /\ fpc = "idle"
    /\ ~fedit
    /\ fedit' = TRUE
    /\ UNCHANGED <<pevents, posterVars, fpc, fpos, fcur, edits, runOthers>>

\* Fixer.Run reaches "for e := range f.watcher.Recent()"; gaby's main loop
\* calls cf.Run() and rp.Run() one after the other
FixerRecent ==
    /\ fpc = "idle"
    /\ \A p \in Procs : ppc[p] = "idle"
    /\ fpc' = "loop"
    /\ fpos' = fcur
    /\ UNCHANGED <<pevents, posterVars, fedit, fcur, edits, runOthers>>

\* the body leaves the event by a continue without an effect: project not
\* enabled, pull request, Fix changes nothing, download error, stale text,
\* or the diff was printed and f.edit is false
FixerSkip ==
    /\ fpc = "loop"
    /\ fpos < Len(pevents)
    /\ fpos' = fpos + 1
    /\ UNCHANGED <<pevents, posterVars, fedit, fpc, fcur, edits, runOthers>>

\* updatedAt is before f.timeLimit: MarkOld if f.edit, continue
FixerTooOld ==
    /\ fpc = "loop"
    /\ fpos < Len(pevents)
    /\ fpos' = fpos + 1
    /\ fcur' = MarkOldIfEnabled(fedit, fcur, fpos + 1)
    /\ UNCHANGED <<pevents, posterVars, fedit, fpc, edits, runOthers>>

\* f.edit and ic.editBody succeeds: MarkOld, Flush
FixerEdit ==
    /\ fpc = "loop"
    /\ fpos < Len(pevents)
    /\ fedit
    /\ fpos' = fpos + 1
    /\ edits' = [edits EXCEPT ![fpos + 1] = @ + 1]
    /\ fcur' = MarkOldIfEnabled(fedit, fcur, fpos + 1)
    /\ UNCHANGED <<pevents, posterVars, fedit, fpc, runOthers>>

\* the iteration is exhausted, Run returns
FixerReturn ==
    /\ fpc = "loop"
    /\ fpos = Len(pevents)
    /\ fpc' = "idle"
    /\ fpos' = 0
    /\ UNCHANGED <<pevents, posterVars, fedit, fcur, edits, runOthers>>

NextRun ==
    \/ \E i \in Issues, k \in EventKinds : MirrorEvent(i, k)
    \/ \E p \in Procs, n \in Names : NewPoster(p, n)
    \/ \E p \in Procs : EnablePosts(p)
    \/ \E p \in Procs : PosterRecent(p)
    \/ \E p \in Procs : PosterSkip(p)
    \/ \E p \in Procs : PosterAlreadyPosted(p)
    \/ \E p \in Procs : PosterConsider(p)
    \/ \E p \in Procs : PosterLookupFailed(p)
    \/ \E p \in Procs : PosterNoResults(p)
    \/ \E p \in Procs : PosterDryRun(p)
    \/ \E p \in Procs : PostFailed(p)
    \/ \E p \in Procs : PostIssueComment(p)
    \/ \E p \in Procs : PosterMarkPosted(p)
    \/ \E p \in Procs : PosterReturn(p)
    \/ EnableEdits
    \/ FixerRecent
    \/ FixerSkip
    \/ FixerTooOld
    \/ FixerEdit
    \/ FixerReturn

InitRunSpec == Init /\ impl = "mem"

SpecRun == InitRunSpec /\ [][NextRun]_vars


(***************************************************************************)
(* storage.MemVectorDB: the vectors of one namespace, kept in the DB and   *)
(* in an in-memory cache that Search scans.                                *)
(***************************************************************************)
DocIds == 1..NDocs
Vectors == UNION {[1..d -> 0..MaxCoord] : d \in 1..MaxDim}
\* the namespace of the vector database, and another one using the same DB
VNamespace == 1
ForeignNamespace == 2
\* the vector the other namespace stores: the one with the largest dot products
ForeignVector == [i \in 1..MaxDim |-> MaxCoord]

vectorOthers == <<timedVars, watcherVars, clientVars, nowVars, rwVars, syncVars, dedupVars, runVars, embedVars, corpusVars, rangeVars, flushVars,
    thirdVars>>

\* llm.Vector.Dot
RECURSIVE DotUpTo(_, _, _)
DotUpTo(v, w, i) == IF i = 0 THEN 0 ELSE DotUpTo(v, w, i - 1) + v[i] * w[i]

Dot(v, w) == DotUpTo(v, w, IF Len(v) < Len(w) THEN Len(v) ELSE Len(w))

\* VectorResult.cmp
VectorResultCmp(x, y) ==
    IF x.Score # y.Score THEN (IF x.Score < y.Score THEN -1 ELSE 1)
    ELSE IF x.ID < y.ID THEN -1
    ELSE IF x.ID > y.ID THEN 1
    ELSE 0

\* Search's "if len(vec) != len(target) { continue }"
EligibleAny(vec, target) == TRUE

Eligible(vec, target) == Len(vec) = Len(target)

\* top.Top.Add: keep the n results that are largest by cmp, largest first
TopAdd(best, n, x) ==
    LET above == Cardinality({i \in 1..Len(best) : VectorResultCmp(best[i], x) > 0})
        all == SubSeq(best, 1, above) \o <<x>> \o SubSeq(best, above + 1, Len(best))
    IN  SubSeq(all, 1, IF Len(all) < n THEN Len(all) ELSE n)

\* Search's variables when no Search is under way
SearchIdle ==
    /\ vpc' = "idle"
    /\ vtarget' = <<>>
    /\ vn' = 0
    /\ vtodo' = {}
    /\ vbest' = <<>>
    /\ vfound' = <<>>

\* memVectorDB.Set
VectorSet(id, vec) ==
    /\ vpc # "scan"
    /\ vstore' = DBSet(vstore, <<VNamespace, id>>, vec)
    /\ vcache' = DBSet(vcache, id, vec)
    /\ SearchIdle
    /\ UNCHANGED vectorOthers

\* Set on a vector database of another namespace over the same DB
ForeignSet(id) ==
    /\ vpc # "scan"
    /\ Cardinality(ScanRange(vstore, <<ForeignNamespace>>, <<ForeignNamespace, Inf>>)) < MaxForeign
    /\ vstore' = DBSet(vstore, <<ForeignNamespace, id>>, ForeignVector)
    /\ SearchIdle
    /\ UNCHANGED <<vcache, vectorOthers>>

\* MemVectorDB(db, lg, namespace): load the cache by a Scan of the namespace
MemVectorDB ==
    /\ vpc # "scan"
    /\ vcache' = [id \in {k[2] : k \in ScanRange(vstore, <<VNamespace>>, <<VNamespace, Inf>>)}
                     |-> vstore[<<VNamespace, id>>]]
    /\ SearchIdle
    /\ UNCHANGED <<vstore, vectorOthers>>

\* Search(target, n): RLock, top.New(n, VectorResult.cmp)
Search(target, n) ==
    /\ vpc # "scan"
    /\ vpc' = "scan"
    /\ vtarget' = target
    /\ vn' = n
    /\ vtodo' = DOMAIN vcache
    /\ vbest' = <<>>
    /\ vfound' = <<>>
    /\ UNCHANGED <<vstore, vcache, vectorOthers>>

\* one round of "for name, vec := range db.cache", in the map's order
SearchVisit(id) ==
    /\ vpc = "scan"
    /\ id \in vtodo
    /\ vtodo' = vtodo \ {id}
    /\ vbest' = IF Eligible(vcache[id], vtarget)
                THEN TopAdd(vbest, vn, [ID |-> id, Score |-> Dot(vtarget, vcache[id])])
                ELSE vbest
    /\ UNCHANGED <<vstore, vcache, vpc, vtarget, vn, vfound, vectorOthers>>

\* return best.Take()
SearchTake ==
    /\ vpc = "scan"
    /\ vtodo = {}
    /\ vfound' = vbest
    /\ vbest' = <<>>
    /\ vpc' = "done"
    /\ UNCHANGED <<vstore, vcache, vtarget, vn, vtodo, vectorOthers>>

NextVector ==
    \/ \E id \in DocIds, vec \in Vectors : VectorSet(id, vec)
    \/ \E id \in DocIds : ForeignSet(id)
    \/ MemVectorDB
    \/ \E target \in Vectors, n \in 1..MaxN : Search(target, n)
    \/ \E id \in DocIds : SearchVisit(id)
    \/ SearchTake

InitVectorSpec == Init /\ impl = "mem"

SpecVector == InitVectorSpec /\ [][NextVector]_vars


(***************************************************************************)
(* embeddocs.Sync: embed the documents the "embeddocs" DocWatcher shows,   *)
(* in batches, and write the vectors to the vector database.               *)
(***************************************************************************)
embedOthers == <<timedVars, watcherVars, clientVars, nowVars, rwVars, syncVars, dedupVars, runVars, vectorVars, corpusVars, rangeVars, flushVars,
    thirdVars>>

\* flush: the ids vdb.Set is called for, given len(vecs)
FlushWritesUnchecked(ids, nv) == {ids[i] : i \in 1..(IF nv < Len(ids) THEN nv ELSE Len(ids))}

FlushWrites(ids, nv) == IF nv > Len(ids) THEN {} ELSE {ids[i] : i \in 1..nv}

\* flush: its result
FlushOK(ids, nv, err) == nv = Len(ids) /\ ~err

\* flush: what it logs with lg.Error
FlushLog(ids, nv, err) ==
    IF nv > Len(ids) THEN "embeddocs length mismatch"
    ELSE IF err THEN "embeddocs EmbedDocs error"
    ELSE IF nv # Len(ids) THEN "embeddocs length mismatch"
    ELSE ""

\* flush, apart from what becomes of batch and ids: EmbedDocs answers with nv
\* vectors and err; the vectors are written; on success the cursor is marked
Flush(ids, nv, err) ==
    /\ ecalls' = ecalls + 1
    /\ elast' = <<nv, err, Len(ids)>>
    /\ elog' = FlushLog(ids, nv, err)
    /\ evecs' = evecs \cup FlushWrites(ids, nv)
    /\ ecur' = IF FlushOK(ids, nv, err) /\ ids[Len(ids)] > ecur THEN ids[Len(ids)] ELSE ecur
    /\ eerr' = IF eerr = <<>> /\ err /\ nv <= Len(ids) THEN ids ELSE eerr
    /\ estart' = estart

\* Corpus.Add of a new document
AddDoc ==
    /\ edocs < NDocs
    /\ edocs' = edocs + 1
    /\ UNCHANGED <<ecur, evecs, epc, epos, ebatch, ecalls, elast, elog, eerr, estart, embedOthers>>

\* Sync up to the first "for d := range w.Recent()"
EmbedSync ==
    /\ epc = "idle"
    /\ epc' = "first"
    /\ epos' = ecur
    /\ ebatch' = <<>>
    /\ ecalls' = 0
    /\ elast' = <<>>
    /\ elog' = ""
    /\ eerr' = <<>>
    /\ estart' = <<ecur, edocs>>
    /\ UNCHANGED <<edocs, ecur, evecs, embedOthers>>

\* a round of the first loop that leaves the batch short of batchSize
EmbedCollect ==
    /\ epc = "first"
    /\ epos < edocs
    /\ Len(ebatch) + 1 < batchSize
    /\ epos' = epos + 1
    /\ ebatch' = Append(ebatch, epos + 1)
    /\ UNCHANGED <<edocs, ecur, evecs, epc, ecalls, elast, elog, eerr, estart, embedOthers>>

\* a round of the first loop that fills the batch: flush, break if it fails
EmbedFlushFull(nv, err) ==
    /\ epc = "first"
    /\ epos < edocs
    /\ Len(ebatch) + 1 >= batchSize
    /\ nv <= Len(ebatch) + 2
    /\ epos' = epos + 1
    /\ Flush(Append(ebatch, epos + 1), nv, err)
    /\ IF FlushOK(Append(ebatch, epos + 1), nv, err)
       THEN ebatch' = <<>> /\ epc' = "first"
       ELSE ebatch' = Append(ebatch, epos + 1) /\ epc' = "second"
    /\ UNCHANGED <<edocs, embedOthers>>

\* "if len(batch) > 0": where Sync goes when the first loop has ended
AfterFirstLoopReturn(batch) == "idle"
AfterFirstLoop(batch) == IF batch = <<>> THEN "idle" ELSE "second"

\* the first loop's Recent is exhausted; "if len(batch) > 0"
EmbedFirstEnd ==
    /\ epc = "first"
    /\ epos = edocs
    /\ epc' = AfterFirstLoop(ebatch)
    /\ UNCHANGED <<edocs, ecur, evecs, epos, ebatch, ecalls, elast, elog, eerr, estart, embedOthers>>

\* the second loop: a new Recent iteration, flush, then break or return
EmbedFlushRest(nv, err) ==
    /\ epc = "second"
    /\ ecur < edocs
    /\ nv <= Len(ebatch) + 1
    /\ Flush(ebatch, nv, err)
    /\ ebatch' = IF FlushOK(ebatch, nv, err) THEN <<>> ELSE ebatch
    /\ epc' = "idle"
    /\ UNCHANGED <<edocs, epos, embedOthers>>

NextEmbed ==
    \/ AddDoc
    \/ EmbedSync
    \/ EmbedCollect
    \/ \E nv \in 0..(batchSize + 1), err \in BOOLEAN : EmbedFlushFull(nv, err)
    \/ EmbedFirstEnd
    \/ \E nv \in 0..(batchSize + 1), err \in BOOLEAN : EmbedFlushRest(nv, err)

InitEmbedSpec == Init /\ impl = "mem"

SpecEmbed == InitEmbedSpec /\ [][NextEmbed]_vars

(***************************************************************************)
(* Specification SpecEmbedAll: embeddocs.Sync, run again and again while    *)
(* documents are added, with an embedder that answers every EmbedDocs call  *)
(* with one vector for each document and no error.                          *)
(***************************************************************************)
\* a flush of the first loop, of a full batch
EmbedAllFull == EmbedFlushFull(batchSize, FALSE)

\* the flush of the second loop, of what is left
EmbedAllRest == EmbedFlushRest(Len(ebatch), FALSE)

NextEmbedAll ==
    \/ AddDoc
    \/ EmbedSync
    \/ EmbedCollect
    \/ EmbedAllFull
    \/ EmbedFirstEnd
    \/ EmbedAllRest

SpecEmbedAll == Init /\ [][NextEmbedAll]_vars


(***************************************************************************)
(* docs.Corpus over the timed storage: Add, DocsAfter.                     *)
(***************************************************************************)
\* the (title, text) pairs a document can have
DocVals == {0, 1}

\* Add's "ok && old.Title == title && old.Text == text"
SameDocNever(d, id, v) == FALSE

SameDoc(d, id, v) == DBHas(d, PrimKey(id)) /\ d[PrimKey(id)][2] = v

\* Corpus.DocsAfter(t, ""): the ids timed.ScanAfter yields
DocsAfter(d, t) == ScanAfterFrom(d, <<KindByTime, t + 1>>)

\* Corpus.Add(id, title, text), the clock reading c when Set calls now()
CorpusAdd(id, v, c) ==
    /\ cadd' = <<id, v>>
    /\ IF SameDoc(data, id, v)
       THEN UNCHANGED <<data, lastTime>>
       ELSE /\ NowValue(lastTime, c) <= MaxTime
            /\ lastTime' = NowValue(lastTime, c)
            /\ data' = ApplyOps(data, SetOps(data, id, NowValue(lastTime, c), v))
    /\ UNCHANGED <<impl, ops, nstaged, watcherVars, clientVars, nowVars, rwVars, syncVars,
                   dedupVars, runVars, vectorVars, embedVars, rangeVars, flushVars, thirdVars>>

NextCorpus == \E id \in Keys, v \in DocVals, c \in 0..MaxTime : CorpusAdd(id, v, c)

SpecCorpus == Init /\ [][NextCorpus]_vars


(***************************************************************************)
(* storage.DB used directly: Set, Scan and DeleteRange of the in-memory    *)
(* database and of the pebble database.                                    *)
(***************************************************************************)
\* the keys that can hold a row, and the keys a range can be bounded by
RowKeys == {<<k>> : k \in 1..NRows}
BoundKeys == {<<k>> : k \in 0..(NRows + 1)}

rangeOthers == <<impl, ops, nstaged, lastTime, watcherVars, clientVars, nowVars, rwVars, syncVars,
                 dedupVars, runVars, vectorVars, embedVars, corpusVars, flushVars, thirdVars>>

\* pebble db.Scan: the iterator starts at LowerBound start and the loop
\* breaks at the first key above end
RECURSIVE UpTo(_, _)
UpTo(q, hi) ==
    IF q = <<>> THEN <<>>
    ELSE IF LexLess(hi, Head(q)) THEN <<>>
    ELSE <<Head(q)>> \o UpTo(Tail(q), hi)

PebbleScan(d, lo, hi) == UpTo(KeysInOrder({y \in DOMAIN d : LexLE(lo, y)}), hi)

\* pebble db.DeleteRange: d.p.DeleteRange(start, end), which leaves end out,
\* and d.p.Delete(end)
PebbleDeleteRange(d, lo, hi) ==
    DBDelete([x \in {y \in DOMAIN d : ~(LexLE(lo, y) /\ LexLess(y, hi))} |-> d[x]], hi)

\* db.Set(key, val)
RawSet(key) ==
    /\ data' = DBSet(data, key, 0)
    /\ rop' = <<"set", key, key>>
    /\ sfound' = <<>>
    /\ UNCHANGED rangeOthers

\* for key := range db.Scan(start, end), to its end
RawScan(lo, hi) ==
    /\ sfound' = IF impl = "mem" THEN KeysInOrder(ScanRange(data, lo, hi))
                 ELSE PebbleScan(data, lo, hi)
    /\ rop' = <<"scan", lo, hi>>
    /\ UNCHANGED <<data, rangeOthers>>

\* db.DeleteRange(start, end)
RawDeleteRange(lo, hi) ==
    /\ data' = IF impl = "mem" THEN DBDeleteRange(data, lo, hi)
               ELSE PebbleDeleteRange(data, lo, hi)
    /\ rop' = <<"delrange", lo, hi>>
    /\ sfound' = <<>>
    /\ UNCHANGED rangeOthers

NextRange ==
    \/ \E key \in RowKeys : RawSet(key)
    \/ \E lo \in BoundKeys, hi \in BoundKeys : RawScan(lo, hi)
    \/ \E lo \in BoundKeys, hi \in BoundKeys : RawDeleteRange(lo, hi)

SpecRange == Init /\ [][NextRange]_vars


(***************************************************************************)
(* Watcher.Recent with its deferred Flush and unlock, on every way the     *)
(* iteration can end.                                                      *)
(***************************************************************************)
recentOthers == <<clientVars, nowVars, rwVars, syncVars, dedupVars, runVars, vectorVars,
                  embedVars, corpusVars, rangeVars, thirdVars>>

\* Recent's deferred function: w.Flush(), w.unlock()
RecentDeferredNoUnlock(w, how) ==
    /\ disk' = data
    /\ UNCHANGED <<mutexes, wlocked>>
    /\ wended' = [wended EXCEPT ![w] = how]

RecentDeferred(w, how) ==
    /\ disk' = data
    /\ mutexes' = [mutexes EXCEPT ![locks[WatcherKey]] = FALSE]
    /\ wlocked' = [wlocked EXCEPT ![w] = FALSE]
    /\ wended' = [wended EXCEPT ![w] = how]

\* a round of ScanAfter's loop that skips a stale by-time row or yields an entry
\* (ScanAfter panics on a by-time row newer than its entry; none arises here)
RecentScan(w) ==
    /\ wpc[w] = "scan"
    /\ RowsAhead(data, wpos[w]) # {}
    /\ LET y == MinKey(RowsAhead(data, wpos[w]))
           t == y[2]
           k == y[3]
       IN  /\ ~DBHas(data, PrimKey(k)) \/ t <= PrimTime(data, k)
           /\ wpos' = [wpos EXCEPT ![w] = y]
           /\ IF ~DBHas(data, PrimKey(k)) \/ t < PrimTime(data, k)
              THEN UNCHANGED <<wpc, wcur, emitted, dupEmitted>>
              ELSE /\ wcur' = [wcur EXCEPT ![w] = <<k, t, data[PrimKey(k)][2]>>]
                   /\ emitted' = emitted \cup {<<k, t>>}
                   /\ dupEmitted' = (dupEmitted \/ <<k, t>> \in emitted)
                   /\ wpc' = [wpc EXCEPT ![w] = "body"]
    /\ UNCHANGED <<recentOthers, impl, data, ops, nstaged, lastTime, locks, mutexes, wlocked,
                   wmu, restarted, flushVars>>

\* ScanAfter's loop is done: Recent returns
RecentExhausted(w) ==
    /\ wpc[w] = "scan"
    /\ RowsAhead(data, wpos[w]) = {}
    /\ RecentDeferred(w, "exhausted")
    /\ wpc' = [wpc EXCEPT ![w] = "idle"]
    /\ UNCHANGED <<recentOthers, impl, data, ops, nstaged, lastTime, locks, wmu, wpos, wcur,
                   emitted, dupEmitted, restarted>>

\* the loop body breaks: yield returns false, Recent returns
RecentBreak(w) ==
    /\ wpc[w] = "body"
    /\ RecentDeferred(w, "break")
    /\ wpc' = [wpc EXCEPT ![w] = "idle"]
    /\ UNCHANGED <<recentOthers, impl, data, ops, nstaged, lastTime, locks, wmu, wpos, wcur,
                   emitted, dupEmitted, restarted>>

\* the loop body panics: the panic passes through yield and Recent, whose
\* deferred function runs; the caller recovers
RecentBodyPanic(w) ==
    /\ wpc[w] = "body"
    /\ RecentDeferred(w, "panic")
    /\ wpc' = [wpc EXCEPT ![w] = "idle"]
    /\ UNCHANGED <<recentOthers, impl, data, ops, nstaged, lastTime, locks, wmu, wpos, wcur,
                   emitted, dupEmitted, restarted>>

\* the loop body goes on to the next round without MarkOld
RecentContinue(w) ==
    /\ wpc[w] = "body"
    /\ wpc' = [wpc EXCEPT ![w] = "scan"]
    /\ UNCHANGED <<recentOthers, impl, data, ops, nstaged, lastTime, locks, mutexes, wlocked,
                   wmu, wpos, wcur, emitted, dupEmitted, restarted, flushVars>>

NextRecent ==
    \/ \E k \in Keys, v \in Vals, c \in {0, lastTime + 1} : TimedSet(1, k, v, c)
    \/ BatchApply(1)
    \/ \E w \in Watchers, why \in {"lockRecent", "lockRestart"} : WatcherLockBegin(w, why)
    \/ \E w \in Watchers : RecentStart(w)
    \/ \E w \in Watchers : RecentScan(w)
    \/ \E w \in Watchers : BodyMarkOld(w)
    \/ \E w \in Watchers : RecentContinue(w)
    \/ \E w \in Watchers : RecentExhausted(w)
    \/ \E w \in Watchers : RecentBreak(w)
    \/ \E w \in Watchers : RecentBodyPanic(w)
    \/ \E w \in Watchers : Restart(w)

InitRecent == Init /\ impl = "pebble"

SpecRecent == InitRecent /\ [][NextRecent]_vars

(***************************************************************************)
(* Specification SpecLock: clients of one MemLocker (the lock table of both *)
(* the in-memory and the pebble database) lock and unlock names.            *)
(***************************************************************************)
lockOthers == <<wlocked, wpc, wmu, wpos, wcur, emitted, dupEmitted, restarted, syncVars, laterVars>>

LockLookup(c, name) ==
    LET id == MutexFor(locks, mutexes, name)
    IN  /\ cpc[c] = "idle"
        /\ locks' = LocksWith(locks, name, id)
        /\ mutexes' = MutexesWith(mutexes, id)
        /\ cname' = [cname EXCEPT ![c] = name]
        /\ cmu' = [cmu EXCEPT ![c] = id]
        /\ cpc' = [cpc EXCEPT ![c] = "wait"]
        /\ UNCHANGED <<timedVars, lockOthers, nowVars, rwVars>>

\* mu.Lock returns: the client holds the lock
LockAcquire(c) ==
    /\ cpc[c] = "wait"
    /\ MutexFree(mutexes, cmu[c])
    /\ mutexes' = [mutexes EXCEPT ![cmu[c]] = TRUE]
    /\ cpc' = [cpc EXCEPT ![c] = "held"]
    /\ UNCHANGED <<timedVars, lockOthers, nowVars, rwVars, locks, cname, cmu>>

\* MemLocker.Unlock by the holder
Unlock(c) ==
    /\ cpc[c] = "held"
    /\ mutexes' = [mutexes EXCEPT ![locks[cname[c]]] = FALSE]
    /\ cpc' = [cpc EXCEPT ![c] = "idle"]
    /\ UNCHANGED <<timedVars, lockOthers, nowVars, rwVars, locks, cname, cmu>>

\* MemLocker.Unlock of a name no one ever locked panics
UnlockNeverLocked(c, name) ==
    /\ cpc[c] = "idle"
    /\ name \notin DOMAIN locks
    /\ cpc' = [cpc EXCEPT ![c] = "panicked"]
    /\ cname' = [cname EXCEPT ![c] = name]
    /\ UNCHANGED <<timedVars, lockOthers, nowVars, rwVars, locks, mutexes, cmu>>

\* the deferred recover of the caller
Recover(c) ==
    /\ cpc[c] = "panicked"
    /\ cpc' = [cpc EXCEPT ![c] = "idle"]
    /\ UNCHANGED <<timedVars, lockOthers, nowVars, rwVars, locks, mutexes, cname, cmu>>

NextLock ==
    \/ \E c \in Clients, name \in Names : LockLookup(c, name)
    \/ \E c \in Clients : LockAcquire(c)
    \/ \E c \in Clients : Unlock(c)
    \/ \E c \in Clients, name \in Names : UnlockNeverLocked(c, name)
    \/ \E c \in Clients : Recover(c)

\* both databases embed the same MemLocker: the choice of impl plays no part
InitLock == Init /\ impl = "mem"

SpecLock == InitLock /\ [][NextLock]_vars

(***************************************************************************)
(* Specification SpecNow: goroutines call now() concurrently; the clock may *)
(* stand still or step back between readings.                               *)
(***************************************************************************)
nowOthers == <<impl, data, ops, nstaged, watcherVars, clientVars, rwVars, syncVars, laterVars>>

\* old := lastTime.Load()
NowLoad(g) ==
    /\ npc[g] = "load"
    /\ Len(returned) < MaxTime
    /\ nold' = [nold EXCEPT ![g] = lastTime]
    /\ npc' = [npc EXCEPT ![g] = "clock"]
    /\ UNCHANGED <<nowOthers, lastTime, nt, returned>>

\* t := time.Now().UnixNano(); if t <= old { t = old + 1 }
NowClock(g, c) ==
    /\ npc[g] = "clock"
    /\ nt' = [nt EXCEPT ![g] = NowValue(nold[g], c)]
    /\ npc' = [npc EXCEPT ![g] = "cas"]
    /\ UNCHANGED <<nowOthers, lastTime, nold, returned>>

\* lastTime.CompareAndSwap(old, t) succeeds and now returns t
NowCASReturn(g) ==
    /\ npc[g] = "cas"
    /\ lastTime = nold[g]
    /\ lastTime' = nt[g]
    /\ returned' = Append(returned, nt[g])
    /\ npc' = [npc EXCEPT ![g] = "load"]
    /\ UNCHANGED <<nowOthers, nold, nt>>

\* lastTime.CompareAndSwap(old, t) fails and the loop starts over
NowCASRetry(g) ==
    /\ npc[g] = "cas"
    /\ lastTime # nold[g]
    /\ npc' = [npc EXCEPT ![g] = "load"]
    /\ UNCHANGED <<nowOthers, lastTime, nold, nt, returned>>

NextNow ==
    \/ \E g \in Procs : NowLoad(g)
    \/ \E g \in Procs, c \in 0..MaxTime : NowClock(g, c)
    \/ \E g \in Procs : NowCASReturn(g)
    \/ \E g \in Procs : NowCASRetry(g)

\* now() is the same for both databases: the choice of impl plays no part
InitNowSpec == Init /\ impl = "mem"

SpecNow == InitNowSpec /\ [][NextNow]_vars

(***************************************************************************)
(* Specification SpecMisuse: two goroutines, one per Watcher object of the   *)
(* same (db, kind, name), iterate Recent.  The second marks old the entries *)
(* it receives; the first calls MarkOld with any time inside the loop body  *)
(* and Restart between iterations, and also calls MarkOld outside an        *)
(* iteration and Restart and Recent inside one, recovering the panic.       *)
(***************************************************************************)
callOthers == <<clientVars, nowVars, rwVars, syncVars, dedupVars, runVars, vectorVars,
                embedVars, corpusVars, rangeVars, rewriteVars, scanVars,
    vbatchVars,
    httpVars,
    staleVars,
    vsetVars,
    skipVars,
    addVars,
    relVars>>

\* Watcher.lock: "if w.locked.Load() { w.db.Panic(...) }"
LockPanicsNever(locked) == FALSE
LockPanics(locked) == locked

\* the messages of the two panics
AlreadyLocked == "timed.Watcher already locked"
MarkOldUnlocked == "timed.Watcher.MarkOld unlocked"

\* the entries of the kind: the keys with a primary row, each with its modtime
Entries(d) == {<<k, PrimTime(d, k)>> : k \in {x \in Keys : DBHas(d, PrimKey(x))}}

\* Recent as far as the first round of ScanAfter: w.lock(), whose db.Lock
\* returns once the mutex of the name is free, and w.cutoff()
RecentLock(w) ==
    LET id == MutexFor(locks, mutexes, WatcherKey)
    IN  /\ wpc[w] = "idle"
        /\ ~LockPanics(wlocked[w])
        /\ MutexFree(MutexesWith(mutexes, id), id)
        /\ locks' = LocksWith(locks, WatcherKey, id)
        /\ mutexes' = [MutexesWith(mutexes, id) EXCEPT ![id] = TRUE]
        /\ wmu' = [wmu EXCEPT ![w] = id]
        /\ wlocked' = [wlocked EXCEPT ![w] = TRUE]
        /\ wpos' = [wpos EXCEPT ![w] = <<KindByTime, Cutoff(data) + 1>>]
        /\ wcur' = [wcur EXCEPT ![w] = NoEntry]
        /\ wpc' = [wpc EXCEPT ![w] = "scan"]
        /\ wmark' = [wmark EXCEPT ![w] = Cutoff(data)]
        /\ wseen' = [wseen EXCEPT ![w] = {}]
        /\ wbase' = [wbase EXCEPT ![w] = Entries(data)]
        /\ wfirst' = [wfirst EXCEPT ![w] = fresh]
        /\ fresh' = FALSE
        /\ UNCHANGED <<callOthers, timedVars, emitted, dupEmitted, restarted, flushVars, wcall>>

\* a round of ScanAfter's loop that skips a stale by-time row or yields an entry
RecentYield(w) ==
    /\ wpc[w] = "scan"
    /\ RowsAhead(data, wpos[w]) # {}
    /\ LET y == MinKey(RowsAhead(data, wpos[w]))
           t == y[2]
           k == y[3]
       IN  /\ ~DBHas(data, PrimKey(k)) \/ t <= PrimTime(data, k)
           /\ wpos' = [wpos EXCEPT ![w] = y]
           /\ IF ~DBHas(data, PrimKey(k)) \/ t < PrimTime(data, k)
              THEN UNCHANGED <<wpc, wcur, emitted, dupEmitted, wseen>>
              ELSE /\ wcur' = [wcur EXCEPT ![w] = <<k, t, data[PrimKey(k)][2]>>]
                   /\ emitted' = emitted \cup {<<k, t>>}
                   /\ dupEmitted' = (dupEmitted \/ <<k, t>> \in emitted)
                   /\ wseen' = [wseen EXCEPT ![w] = @ \cup {<<k, t>>}]
                   /\ wpc' = [wpc EXCEPT ![w] = "body"]
    /\ UNCHANGED <<callOthers, timedVars, locks, mutexes, wlocked, wmu, restarted, flushVars,
                   wcall, wmark, wbase, wfirst, fresh>>

\* a round of ScanAfter's loop that meets a by-time row newer than its entry:
\* db.Panic("timed.ScanAfter mismatch"), and Recent's deferred function runs
RecentMismatch(w) ==
    /\ wpc[w] = "scan"
    /\ RowsAhead(data, wpos[w]) # {}
    /\ LET y == MinKey(RowsAhead(data, wpos[w]))
       IN  /\ DBHas(data, PrimKey(y[3]))
           /\ y[2] > PrimTime(data, y[3])
           /\ wpos' = [wpos EXCEPT ![w] = y]
    /\ RecentDeferred(w, "panic")
    /\ wpc' = [wpc EXCEPT ![w] = "idle"]
    /\ UNCHANGED <<callOthers, timedVars, locks, wmu, wcur, emitted, dupEmitted, restarted,
                   callVars>>

\* ScanAfter's loop is done: Recent returns through its deferred function
RecentReturn(w) ==
    /\ wpc[w] = "scan"
    /\ RowsAhead(data, wpos[w]) = {}
    /\ RecentDeferred(w, "exhausted")
    /\ wpc' = [wpc EXCEPT ![w] = "idle"]
    /\ UNCHANGED <<callOthers, timedVars, locks, wmu, wpos, wcur, emitted, dupEmitted,
                   restarted, callVars>>

\* the loop body is done with the entry and asks for the next one
BodyDone(w) ==
    /\ wpc[w] = "body"
    /\ wpc' = [wpc EXCEPT ![w] = "scan"]
    /\ UNCHANGED <<callOthers, timedVars, locks, mutexes, wlocked, wmu, wpos, wcur, emitted,
                   dupEmitted, restarted, flushVars, callVars>>

\* w.MarkOld(t) in the loop body, for any t
MarkOldCall(w, t) ==
    /\ wpc[w] = "body"
    /\ wlocked[w]
    /\ data' = MarkOld(data, t)
    /\ wcall' = [wcall EXCEPT ![w] = <<"MarkOld", t, "ok">>]
    /\ wmark' = [wmark EXCEPT ![w] = IF t > @ THEN t ELSE @]
    /\ UNCHANGED <<callOthers, impl, ops, nstaged, lastTime, watcherVars, flushVars, wseen,
                   wbase, wfirst, fresh>>

\* w.Restart() between iterations: lock, delete the cursor row, unlock
RestartCall(w) ==
    LET id == MutexFor(locks, mutexes, WatcherKey)
    IN  /\ wpc[w] = "idle"
        /\ ~LockPanics(wlocked[w])
        /\ MutexFree(MutexesWith(mutexes, id), id)
        /\ locks' = LocksWith(locks, WatcherKey, id)
        /\ mutexes' = MutexesWith(mutexes, id)
        /\ wmu' = [wmu EXCEPT ![w] = id]
        /\ data' = DBDelete(data, WatcherKey)
        /\ restarted' = TRUE
        /\ fresh' = TRUE
        /\ wcall' = [wcall EXCEPT ![w] = <<"Restart", 0, "ok">>]
        /\ UNCHANGED <<callOthers, impl, ops, nstaged, lastTime, wlocked, wpc, wpos, wcur,
                       emitted, dupEmitted, flushVars, wmark, wseen, wbase, wfirst>>

\* w.MarkOld(t) outside an iteration, the panic recovered by the caller
MarkOldOutside(w, t) ==
    /\ wpc[w] = "idle"
    /\ IF ~wlocked[w]
       THEN /\ wcall' = [wcall EXCEPT ![w] = <<"MarkOld", t, MarkOldUnlocked>>]
            /\ UNCHANGED data
       ELSE /\ wcall' = [wcall EXCEPT ![w] = <<"MarkOld", t, "ok">>]
            /\ data' = MarkOld(data, t)
    /\ UNCHANGED <<callOthers, impl, ops, nstaged, lastTime, watcherVars, flushVars, wmark,
                   wseen, wbase, wfirst, fresh>>

\* w.Restart() or "for range w.Recent()" in the loop body of an iteration of w:
\* w.lock() panics before anything is deferred, and the caller recovers; were
\* there no check, db.Lock would block on the mutex the goroutine holds itself
LockInside(w, call) ==
    /\ wpc[w] = "body"
    /\ IF LockPanics(wlocked[w])
       THEN /\ wcall' = [wcall EXCEPT ![w] = <<call, 0, AlreadyLocked>>]
            /\ UNCHANGED wpc
       ELSE /\ wcall' = [wcall EXCEPT ![w] = <<call, 0, "blocked">>]
            /\ wpc' = [wpc EXCEPT ![w] = "blocked"]
    /\ UNCHANGED <<callOthers, timedVars, locks, mutexes, wlocked, wmu, wpos, wcur, emitted,
                   dupEmitted, restarted, flushVars, wmark, wseen, wbase, wfirst, fresh>>

RestartInside(w) == LockInside(w, "Restart")

RecentInside(w) == LockInside(w, "Recent")

NextMisuse ==
    \/ \E v \in Vals, c \in {0, lastTime + 1} : TimedSet(1, 1, v, c)
    \/ BatchApply(1)
    \/ \E w \in Watchers : RecentLock(w)
    \/ \E w \in Watchers : RecentYield(w)
    \/ \E w \in Watchers : RecentReturn(w)
    \/ \E w \in Watchers : BodyDone(w)
    \/ \E t \in 0..MaxTime : MarkOldCall(1, t)
    \/ MarkOldCall(2, wcur[2][2])
    \/ RestartCall(1)
    \/ \E t \in {0, MaxTime} : MarkOldOutside(1, t)
    \/ RestartInside(1)
    \/ RecentInside(1)

\* both databases lock through a MemLocker: the choice of impl plays no part
InitMisuse == Init /\ impl = "mem"

SpecMisuse == InitMisuse /\ [][NextMisuse]_vars

(***************************************************************************)
(* Specification SpecRestart: entries written through two batches, applied  *)
(* in any order, while one Watcher iterates Recent, marking entries old,    *)
(* and restarts between iterations.                                         *)
(***************************************************************************)
NextRestart ==
    \/ \E b \in Batches, k \in Keys, v \in Vals, c \in {0, lastTime + 1} : TimedSet(b, k, v, c)
    \/ \E b \in Batches : BatchApply(b)
    \/ RecentLock(1)
    \/ RecentYield(1)
    \/ RecentMismatch(1)
    \/ RecentReturn(1)
    \/ BodyDone(1)
    \/ MarkOldCall(1, wcur[1][2])
    \/ RestartCall(1)

\* the pebble batch, which is empty again once applied
InitRestart == Init /\ impl = "pebble"

SpecRestart == InitRestart /\ [][NextRestart]_vars

(***************************************************************************)
(* Specification SpecFix: commentfix.Fixer.Fix on a parsed Markdown text.   *)
(* A text is a sequence of tokens, and a pattern matches one token wherever *)
(* it stands.  A document is the sequence of its inlines (Plain, Code, Link *)
(* with one Plain inside, AutoLink) and code blocks.  Rules are added to    *)
(* the Fixer, Fix is called on a document and then on its own output.       *)
(***************************************************************************)
fixOthers == <<timedVars, watcherVars, clientVars, nowVars, rwVars, syncVars, dedupVars,
               runVars, vectorVars, embedVars, corpusVars, rangeVars, flushVars, callVars, scanVars,
    vbatchVars,
    httpVars,
    staleVars,
    vsetVars,
    skipVars,
    addVars,
    relVars>>

Tokens == {"a", "b"}

\* the tokens of the URLs the rules write: one of them no pattern matches
URLTokens == Tokens \cup {"c"}

\* the texts of at most n tokens
TextsUpTo(n) == UNION {[1..m -> Tokens] : m \in 0..n}

Plain(text) == [t |-> "Plain", text |-> text, url |-> <<>>]

\* the nodes a document is drawn from; a Link holds the text of its one Plain
DocNodes ==
    {Plain(x) : x \in TextsUpTo(MaxText) \ {<<>>}}
    \cup {[t |-> k, text |-> <<x>>, url |-> <<>>] : k \in {"Code", "CodeBlock"}, x \in Tokens}
    \cup {[t |-> "Link", text |-> <<x>>, url |-> <<u>>] : x \in Tokens, u \in Tokens}
    \cup {[t |-> "AutoLink", text |-> <<u>>, url |-> <<u>>] : u \in Tokens}

\* what markdown.Parser.Parse gives for a text: no empty Plain, no two Plains in a row
Parsed(d) ==
    /\ \A i \in 1..Len(d) : d[i].t = "Plain" => d[i].text # <<>>
    /\ \A i \in 1..(Len(d) - 1) : ~(d[i].t = "Plain" /\ d[i + 1].t = "Plain")

Docs == {d \in UNION {[1..m -> DocNodes] : m \in 1..MaxNodes} : Parsed(d)}

\* the rules AutoLink, ReplaceText and ReplaceURL can add
Rules ==
    {[k |-> "ReplaceText", pat |-> p, repl |-> r] : p \in Tokens, r \in TextsUpTo(MaxRepl)}
    \cup {[k |-> "AutoLink", pat |-> p, repl |-> <<u>>] : p \in Tokens, u \in URLTokens}
    \cup {[k |-> "ReplaceURL", pat |-> p, repl |-> <<u>>] : p \in Tokens, u \in URLTokens}

Matches(text, p) == \E i \in 1..Len(text) : text[i] = p

\* re.ReplaceAllString(text, repl)
RECURSIVE ReplaceAll(_, _, _)
ReplaceAll(text, p, repl) ==
    IF text = <<>> THEN <<>>
    ELSE (IF Head(text) = p THEN repl ELSE <<Head(text)>>) \o ReplaceAll(Tail(text), p, repl)

\* re.ReplaceAllString(url, repl) for the pattern anchored with \A
ReplaceStart(url, p, repl) ==
    IF url # <<>> /\ Head(url) = p THEN repl \o Tail(url) ELSE url

\* the fix function of AutoLink on a Plain with a match: the pieces between the
\* matches, each match as a Link, and the rest, which may be empty
RECURSIVE LinkMatches(_, _, _, _)
LinkMatches(text, p, url, before) ==
    IF text = <<>> THEN <<Plain(before)>>
    ELSE IF Head(text) = p
    THEN (IF before = <<>> THEN <<>> ELSE <<Plain(before)>>)
         \o <<[t |-> "Link", text |-> <<p>>, url |-> url]>>
         \o LinkMatches(Tail(text), p, url, <<>>)
    ELSE LinkMatches(Tail(text), p, url, before \o <<Head(text)>>)

\* which inlines the fix function of ReplaceText rewrites
ReplaceTextAppliesToCode(x) == x.t \in {"Plain", "Code"}
ReplaceTextApplies(x) == x.t = "Plain"

\* "if flags&flagLink != 0": the inline is link text
InsideLinkIgnored(inLink) == FALSE
InsideLink(inLink) == inLink

\* fix(x, flags) for rule r: <<changed, the inlines that take the place of x>>
FixFunc(r, x, inLink) ==
    CASE r.k = "ReplaceText" ->
            IF ReplaceTextApplies(x) /\ Matches(x.text, r.pat)
            THEN <<TRUE, <<[x EXCEPT !.text = ReplaceAll(x.text, r.pat, r.repl)]>>>>
            ELSE <<FALSE, <<x>>>>
      [] r.k = "AutoLink" ->
            IF ~InsideLink(inLink) /\ x.t = "Plain" /\ Matches(x.text, r.pat)
            THEN <<TRUE, LinkMatches(x.text, r.pat, r.repl, <<>>)>>
            ELSE <<FALSE, <<x>>>>
      [] r.k = "ReplaceURL" ->
            IF x.t \in {"Link", "AutoLink"} /\ ReplaceStart(x.url, r.pat, r.repl) # x.url
            THEN <<TRUE, <<[x EXCEPT !.url = ReplaceStart(x.url, r.pat, r.repl),
                                     !.text = IF x.text = x.url
                                              THEN ReplaceStart(x.url, r.pat, r.repl)
                                              ELSE x.text]>>>>
            ELSE <<FALSE, <<x>>>>

\* fixInlines on one inline: a Link first has the fix run on the Plain inside
\* it, with flagLink; code blocks are not visited by fixBlock
FixInline(r, x) ==
    IF x.t = "CodeBlock" THEN <<FALSE, <<x>>>>
    ELSE IF x.t = "Link"
    THEN LET in == FixFunc(r, Plain(x.text), TRUE)
             y == [x EXCEPT !.text = in[2][1].text]
             out == FixFunc(r, y, FALSE)
         IN  <<in[1] \/ out[1], out[2]>>
    ELSE FixFunc(r, x, FALSE)

\* fixOne(fix, doc): <<fixed, doc>>
RECURSIVE FixOne(_, _)
FixOne(r, d) ==
    IF d = <<>> THEN <<FALSE, <<>>>>
    ELSE LET h == FixInline(r, Head(d))
             rest == FixOne(r, Tail(d))
         IN  <<h[1] \/ rest[1], h[2] \o rest[2]>>

\* the documents after 0, 1, ... rules of rs have been run over d
RECURSIVE FixTrace(_, _)
FixTrace(rs, d) ==
    IF rs = <<>> THEN <<d>> ELSE <<d>> \o FixTrace(Tail(rs), FixOne(Head(rs), d)[2])

\* whether some rule of rs reports a change
RECURSIVE FixFixed(_, _)
FixFixed(rs, d) ==
    rs # <<>> /\ (FixOne(Head(rs), d)[1] \/ FixFixed(Tail(rs), FixOne(Head(rs), d)[2]))

\* the document read back from markdown.ToMarkdown(doc): an empty Plain is no
\* text at all, and Plains next to each other are one run of text
RECURSIVE Reparse(_)
Reparse(d) ==
    IF d = <<>> THEN <<>>
    ELSE IF Head(d).t = "Plain" /\ Head(d).text = <<>> THEN Reparse(Tail(d))
    ELSE LET rest == Reparse(Tail(d))
         IN  IF Head(d).t = "Plain" /\ rest # <<>> /\ rest[1].t = "Plain"
             THEN <<Plain(Head(d).text \o rest[1].text)>> \o Tail(rest)
             ELSE <<Head(d)>> \o rest

\* f.AutoLink, f.ReplaceText, f.ReplaceURL: append the rule's fix function
AddRule(r) ==
    /\ mcalls = 0
    /\ Len(mrules) < MaxRules
    /\ mrules' = Append(mrules, r)
    /\ UNCHANGED <<fixOthers, mdoc, mtrace, mfixed, mcalls>>

\* the body of Fix on the parsed text d
FixDoc(d) ==
    /\ mtrace' = FixTrace(mrules, d)
    /\ mfixed' = FixFixed(mrules, d)
    /\ mdoc' = IF FixFixed(mrules, d) THEN Reparse(FixTrace(mrules, d)[Len(mrules) + 1]) ELSE d
    /\ mcalls' = mcalls + 1
    /\ UNCHANGED <<fixOthers, mrules>>

\* f.Fix(text)
Fix(d) ==
    /\ mcalls = 0
    /\ FixDoc(d)

\* f.Fix on the text the last Fix returned
FixAgain ==
    /\ mcalls = 1
    /\ mfixed
    /\ FixDoc(mdoc)

NextFix ==
    \/ \E r \in Rules : AddRule(r)
    \/ \E d \in Docs : Fix(d)
    \/ FixAgain

\* Fix touches no database
InitFix == Init /\ impl = "mem"

SpecFix == InitFix /\ [][NextFix]_vars

(***************************************************************************)
(* Specification SpecScan: clients stage Sets and Deletes on the batches    *)
(* and apply them, and between the writes a client calls timed.ScanAfter    *)
(* with a time and a filter and runs the iteration to its end.              *)
(***************************************************************************)
scanOthers == <<timedVars, watcherVars, clientVars, nowVars, rwVars, syncVars, dedupVars,
                runVars, vectorVars, embedVars, corpusVars, rangeVars, flushVars, callVars,
                rewriteVars,
    vbatchVars,
    httpVars,
    staleVars,
    vsetVars,
    skipVars,
    addVars,
    relVars>>

NoScan == <<>>

\* the filter argument: nil, or a function, given by the keys it returns true for
NilFilter == [nil |-> TRUE, keys |-> {}]
FilterOf(S) == [nil |-> FALSE, keys |-> S]

\* "if filter != nil && !filter(key) { continue }"
Pass(filter, k) == filter.nil \/ k \in filter.keys

\* the loop of ScanAfter over the by-time rows q: the entries yielded, and
\* whether the loop ended in db.Panic("timed.ScanAfter mismatch")
RECURSIVE ScanRows(_, _, _)
ScanRows(d, q, filter) ==
    IF q = <<>> THEN [out |-> <<>>, panic |-> FALSE]
    ELSE LET t == Head(q)[2]
             k == Head(q)[3]
             rest == ScanRows(d, Tail(q), filter)
         IN  IF ~Pass(filter, k) THEN rest
             ELSE IF ~DBHas(d, PrimKey(k)) THEN rest
             ELSE IF t < PrimTime(d, k) THEN rest
             ELSE IF t > PrimTime(d, k) THEN [out |-> <<>>, panic |-> TRUE]
             ELSE [out |-> <<[ModTime |-> t, Key |-> k, Val |-> d[PrimKey(k)][2]]>> \o rest.out,
                   panic |-> rest.panic]

\* timed.ScanAfter(db, kind, t, filter), iterated to its end
ScanAfter(d, t, filter) ==
    ScanRows(d, KeysInOrder(RowsAhead(d, <<KindByTime, t + 1>>)), filter)

\* for e := range timed.ScanAfter(db, kind, t, filter)
ScanCall(t, filter) ==
    /\ sres = NoScan
    /\ sres' = [t |-> t, filter |-> filter] @@ ScanAfter(data, t, filter)
    /\ UNCHANGED scanOthers

\* the caller is done with what the iteration yielded
ScanDone ==
    /\ sres # NoScan
    /\ sres' = NoScan
    /\ UNCHANGED scanOthers

\* the writes, none of them while an iteration is under way
ScanSet(b, k, v, c) == sres = NoScan /\ TimedSet(b, k, v, c)
ScanDelete(b, k) == sres = NoScan /\ TimedDelete(b, k)
ScanApply(b) == sres = NoScan /\ BatchApply(b)

NextScan ==
    \/ \E b \in Batches, k \in Keys, v \in DocVals, c \in {0, lastTime + 1} : ScanSet(b, k, v, c)
    \/ \E b \in Batches, k \in Keys : ScanDelete(b, k)
    \/ \E b \in Batches : ScanApply(b)
    \/ \E t \in {0, 1}, filter \in {NilFilter, FilterOf({1})} : ScanCall(t, filter)
    \/ ScanDone

InitScan == Init /\ impl = "pebble"

SpecScan == InitScan /\ [][NextScan]_vars

(***************************************************************************)
(* Specification SpecVBatch: one goroutine stages vectors on a              *)
(* memVectorBatch and applies it, while others call Get and Search on the   *)
(* memVectorDB.                                                             *)
(***************************************************************************)
vbatchOthers == <<timedVars, watcherVars, clientVars, nowVars, rwVars, syncVars, dedupVars,
                  runVars, embedVars, corpusVars, rangeVars, flushVars, callVars, rewriteVars,
                  scanVars,
    httpVars,
    staleVars,
    vsetVars,
    skipVars,
    addVars,
    relVars>>
searchVars == <<vpc, vtarget, vn, vtodo, vbest, vfound>>

\* the ids and vectors the batch is given
BatchIds == {1, 2}
BatchVectors == {<<0>>, <<1>>}

\* db.mu.RLock() returns: no Apply holds db.mu
CacheRLockFreeAlways(bpc) == TRUE
CacheRLockFree(bpc) == bpc # "copy"

\* db.mu.Lock() returns: no Search holds db.mu
CacheLockFree(pc) == pc # "scan"

\* b.sb.Apply(): the staged Sets written to the DB in order, the last Set of
\* an id deciding its row
StoreAll(store, sb) ==
    [key \in DOMAIN store \cup {<<VNamespace, id>> : id \in DOMAIN sb.rows} |->
        IF key[1] = VNamespace /\ key[2] \in DOMAIN sb.rows THEN sb.rows[key[2]] ELSE store[key]]

\* the DB batch after Apply: the pebble batch is Reset, the memBatch keeps its ops
SbAfterApply(i, sb) == IF i = "pebble" THEN NoSets ELSE sb

\* b.sb.MaybeApply(): the memBatch never applies, the pebble batch when it has
\* grown beyond its limit
SbMaybeApply(i, sb) == i = "pebble" /\ sb.n > MaybeApplyLimit

\* the cache with the vectors of w written over it
CacheWith(cache, w) ==
    [id \in DOMAIN cache \cup DOMAIN w |-> IF id \in DOMAIN w THEN w[id] ELSE cache[id]]

\* memVectorBatch.Set(name, vec)
VectorBatchSet(id, vec) ==
    /\ vbpc = "idle"
    /\ vsb.n < MaxVecOps
    /\ vsb' = [n |-> vsb.n + 1, rows |-> DBSet(vsb.rows, id, vec)]
    /\ vw' = DBSet(vw, id, vec)
    /\ vret' = "Set"
    /\ UNCHANGED <<vbatchOthers, vstore, vcache, searchVars, vbpc, vleft, vpre, vlast, vget>>

\* memVectorBatch.Apply as far as b.sb.Apply(); how is "Apply", or
\* "MaybeApply true" when MaybeApply got true from b.sb.MaybeApply()
VectorBatchCommit(how) ==
    /\ vbpc = "idle"
    /\ how = "MaybeApply true" => SbMaybeApply(impl, vsb)
    /\ vstore' = StoreAll(vstore, vsb)
    /\ vsb' = SbAfterApply(impl, vsb)
    /\ vbpc' = "committed"
    /\ vret' = how
    /\ UNCHANGED <<vbatchOthers, vcache, searchVars, vw, vleft, vpre, vlast, vget>>

\* memVectorBatch.MaybeApply when b.sb.MaybeApply() reports false
VectorBatchMaybeApplyFalse ==
    /\ vbpc = "idle"
    /\ ~SbMaybeApply(impl, vsb)
    /\ vret' = "MaybeApply false"
    /\ UNCHANGED <<vbatchOthers, vstore, vcache, searchVars, vw, vsb, vbpc, vleft, vpre, vlast, vget>>

\* Apply: b.db.mu.Lock()
CacheLock ==
    /\ vbpc = "committed"
    /\ CacheLockFree(vpc)
    /\ vbpc' = "copy"
    /\ vleft' = DOMAIN vw
    /\ vpre' = vcache
    /\ vlast' = vw
    /\ UNCHANGED <<vbatchOthers, vstore, vcache, searchVars, vw, vsb, vget, vret>>

\* Apply: one round of "for name, vec := range b.w"
CacheCopy(id) ==
    /\ vbpc = "copy"
    /\ id \in vleft
    /\ vcache' = DBSet(vcache, id, vw[id])
    /\ vleft' = vleft \ {id}
    /\ UNCHANGED <<vbatchOthers, vstore, searchVars, vw, vsb, vbpc, vpre, vlast, vget, vret>>

\* Apply: clear(b.w) and the deferred b.db.mu.Unlock()
CacheUnlock ==
    /\ vbpc = "copy"
    /\ vleft = {}
    /\ vw' = <<>>
    /\ vbpc' = "idle"
    /\ UNCHANGED <<vbatchOthers, vstore, vcache, searchVars, vsb, vleft, vpre, vlast, vget, vret>>

\* memVectorDB.Get(name)
VectorGet(id) ==
    /\ CacheRLockFree(vbpc)
    /\ vget' = IF DBHas(vcache, id) THEN <<id, TRUE, vcache[id]>> ELSE <<id, FALSE, <<>>>>
    /\ UNCHANGED <<vbatchOthers, vstore, vcache, searchVars, vw, vsb, vbpc, vleft, vpre, vlast, vret>>

\* memVectorDB.Search(target, n) as far as db.mu.RLock()
SearchRLock(target, n) ==
    /\ CacheRLockFree(vbpc)
    /\ Search(target, n)

NextVBatch ==
    \/ \E id \in BatchIds, vec \in BatchVectors : VectorBatchSet(id, vec)
    \/ \E how \in {"Apply", "MaybeApply true"} : VectorBatchCommit(how)
    \/ VectorBatchMaybeApplyFalse
    \/ CacheLock
    \/ \E id \in BatchIds : CacheCopy(id)
    \/ CacheUnlock
    \/ \E id \in BatchIds : VectorGet(id)
    \/ SearchRLock(<<1>>, MaxN)
    \/ \E id \in BatchIds : SearchVisit(id)
    \/ SearchTake

SpecVBatch == Init /\ [][NextVBatch]_vars

(***************************************************************************)
(* Specification SpecHTTP: one HTTP call of the GitHub client, Client.get   *)
(* or Client.json (POST and PATCH), against a server that answers each      *)
(* request as it likes.  Times are in minutes; X-Ratelimit-Reset is given   *)
(* by delta, the minutes from the time of the response to the reset time.   *)
(***************************************************************************)
httpOthers == <<timedVars, watcherVars, clientVars, nowVars, rwVars, syncVars, dedupVars,
                runVars, vectorVars, embedVars, corpusVars, rangeVars, flushVars, callVars,
                rewriteVars, scanVars, vbatchVars,
    staleVars,
    vsetVars,
    skipVars,
    addVars,
    relVars>>

\* the responses: a status code; for a 403, whether X-Ratelimit-Remaining is
\* "0" with an X-Ratelimit-Reset, and that reset time
Responses ==
    {[code |-> c, limited |-> FALSE, delta |-> 0] : c \in {200, 201, 304, 403, 404, 500, 502, 503}}
    \cup {[code |-> 403, limited |-> TRUE, delta |-> d] : d \in (0 - MaxSkew)..MaxSkew}

\* Client.rateLimit's result: a 403 with no requests remaining whose reset
\* time is not more than 2 minutes past
RateLimit(r) ==
    /\ r.code = 403
    /\ r.limited
    /\ (r.delta < 0 => 0 - r.delta <= 2)

\* time.Sleep(d): a negative d returns at once
Sleep(d) == IF d < 0 THEN 0 ELSE d

\* Client.rateLimit's sleep: none when t.Before(now), else
\* time.Sleep(now.Sub(t) + 1*time.Minute)
RateLimitSleep(r) == IF r.delta < 0 THEN 0 ELSE Sleep((0 - r.delta) + 1)

\* "if resp.StatusCode == 500 || resp.StatusCode == 502"
ServerFailureAny5xx(code) == code \in 500..599
ServerFailure(code) == code \in {500, 502}

\* c.get(url, etag, obj) or c.json(method, url, body) up to the first c.http.Do
HTTPCall(meth) ==
    /\ hpc \in {"idle", "done"}
    /\ hpc' = "sent"
    /\ hmeth' = meth
    /\ hnrate' = 0
    /\ hnfail' = 0
    /\ hretries' = 0
    /\ hresp' = <<>>
    /\ hslept' = 0
    /\ hbackoff' = 0
    /\ hres' = ""
    /\ UNCHANGED httpOthers

\* the call returns res
HTTPReturn(res) ==
    /\ hpc' = "done"
    /\ hres' = res

\* Client.get: the response r arrives; return, or goto Redo
GetResponse(r) ==
    /\ hpc = "sent"
    /\ hmeth = "GET"
    /\ hresp' = r
    /\ IF r.code = 200
       THEN /\ HTTPReturn("ok")
            /\ UNCHANGED <<hnrate, hnfail, hretries, hslept, hbackoff>>
       ELSE IF r.code = 304
       THEN /\ HTTPReturn("not modified")
            /\ UNCHANGED <<hnrate, hnfail, hretries, hslept, hbackoff>>
       ELSE IF RateLimit(r)
       THEN /\ hslept' = RateLimitSleep(r)
            /\ hnrate' = hnrate + 1
            /\ IF hnrate + 1 > RateLimitRetries
               THEN HTTPReturn("too many rate limits") /\ UNCHANGED hretries
               ELSE hretries' = hretries + 1 /\ UNCHANGED <<hpc, hres>>
            /\ UNCHANGED <<hnfail, hbackoff>>
       ELSE IF ServerFailure(r.code) /\ hnfail + 1 < ServerFailures
       THEN /\ hnfail' = hnfail + 1
            /\ hbackoff' = (hnfail + 1) * 2
            /\ UNCHANGED <<hpc, hres, hnrate, hretries, hslept>>
       ELSE /\ hnfail' = IF ServerFailure(r.code) THEN hnfail + 1 ELSE hnfail
            /\ HTTPReturn("status")
            /\ UNCHANGED <<hnrate, hretries, hslept, hbackoff>>
    /\ UNCHANGED <<httpOthers, hmeth>>

\* Client.json: the response r arrives; return, or goto Redo
JSONResponse(r) ==
    /\ hpc = "sent"
    /\ hmeth = "POST"
    /\ hresp' = r
    /\ IF RateLimit(r)
       THEN /\ hretries < MaxRetries
            /\ hslept' = RateLimitSleep(r)
            /\ hretries' = hretries + 1
            /\ UNCHANGED <<hpc, hres>>
       ELSE /\ HTTPReturn(IF r.code \div 10 = 20 THEN "ok" ELSE "status")
            /\ UNCHANGED <<hretries, hslept>>
    /\ UNCHANGED <<httpOthers, hmeth, hnrate, hnfail, hbackoff>>

NextHTTP ==
    \/ \E meth \in {"GET", "POST"} : HTTPCall(meth)
    \/ \E r \in Responses : GetResponse(r)
    \/ \E r \in Responses : JSONResponse(r)

SpecHTTP == Init /\ [][NextHTTP]_vars

(***************************************************************************)
(* Specification SpecStale: commentfix.Fixer.Run over mirrored issues whose *)
(* bodies are edited on GitHub while the mirror holds an older copy.  The   *)
(* Fixer has one rule, which rewrites the bodies "teh" and "teh teh".       *)
(***************************************************************************)
staleOthers == <<timedVars, watcherVars, clientVars, nowVars, rwVars, syncVars, dedupVars,
                 vectorVars, embedVars, corpusVars, rangeVars, flushVars, callVars,
                 rewriteVars, scanVars, vbatchVars, httpVars,
    vsetVars,
    skipVars,
    addVars,
    relVars>>

Bodies == {"teh", "teh teh", "the"}

\* f.Fix(body): the new body and whether the body was updated
FixBody(body) ==
    CASE body = "teh" -> <<"the", TRUE>>
      [] body = "teh teh" -> <<"the the", TRUE>>
      [] OTHER -> <<"", FALSE>>

\* "if live.body() != ic.body()"
StaleNever(live, stored) == FALSE
Stale(live, stored) == live # stored

\* the event Run's iteration yields next
ThisEvent == pevents[fpos + 1]

\* somebody edits issue i on GitHub
UserEdit(i, body) ==
    /\ glive[i] # body
    /\ glive' = [glive EXCEPT ![i] = body]
    /\ UNCHANGED <<staleOthers, runVars, fmarks, flog>>

\* the mirror stores the issue as it is on GitHub; old: its updatedAt is
\* before f.timeLimit
MirrorIssue(i, old) ==
    /\ Len(pevents) < NEvents
    /\ pevents' = Append(pevents, [issue |-> i, kind |-> "issue", body |-> glive[i], old |-> old])
    /\ UNCHANGED <<staleOthers, posterVars, fixerVars, staleVars>>

\* the loop body takes the next event
NextEvent ==
    /\ fpc = "loop"
    /\ fpos < Len(pevents)
    /\ fpos' = fpos + 1

\* updatedAt is before f.timeLimit: MarkOld if f.edit, continue
RunTooOld ==
    /\ NextEvent
    /\ ThisEvent.old
    /\ fcur' = MarkOldIfEnabled(fedit, fcur, fpos + 1)
    /\ fmarks' = IF fedit THEN fmarks \cup {fpos + 1} ELSE fmarks
    /\ flog' = ""
    /\ UNCHANGED <<staleOthers, pevents, posterVars, fedit, fpc, edits, glive>>

\* f.Fix reports no update, or ic.download fails: continue
RunNothing(failed) ==
    /\ NextEvent
    /\ ~ThisEvent.old
    /\ failed = FixBody(ThisEvent.body)[2]
    /\ flog' = ""
    /\ UNCHANGED <<staleOthers, pevents, posterVars, fedit, fpc, fcur, edits, glive, fmarks>>

\* the downloaded body is not the stored one: log "commentfix stale", continue
RunStale ==
    /\ NextEvent
    /\ ~ThisEvent.old
    /\ FixBody(ThisEvent.body)[2]
    /\ Stale(glive[ThisEvent.issue], ThisEvent.body)
    /\ flog' = "commentfix stale"
    /\ UNCHANGED <<staleOthers, pevents, posterVars, fedit, fpc, fcur, edits, glive, fmarks>>

\* the rewrite is logged; with f.edit, ic.editBody (edited: it succeeded),
\* MarkOld and Flush
RunRewrite(edited) ==
    /\ NextEvent
    /\ ~ThisEvent.old
    /\ FixBody(ThisEvent.body)[2]
    /\ ~Stale(glive[ThisEvent.issue], ThisEvent.body)
    /\ flog' = "commentfix rewrite"
    /\ IF fedit /\ edited
       THEN /\ glive' = [glive EXCEPT ![ThisEvent.issue] = FixBody(ThisEvent.body)[1]]
            /\ edits' = [edits EXCEPT ![fpos + 1] = @ + 1]
            /\ fcur' = MarkOldIfEnabled(fedit, fcur, fpos + 1)
            /\ fmarks' = fmarks \cup {fpos + 1}
       ELSE UNCHANGED <<glive, edits, fcur, fmarks>>
    /\ UNCHANGED <<staleOthers, pevents, posterVars, fedit, fpc>>

\* Recent is exhausted and Run returns, or Run is called
RunEnds ==
    /\ FixerReturn
    /\ UNCHANGED staleVars

RunBegins ==
    /\ FixerRecent
    /\ UNCHANGED staleVars

NextStale ==
    \/ \E i \in Issues, body \in Bodies : UserEdit(i, body)
    \/ \E i \in Issues, old \in BOOLEAN : MirrorIssue(i, old)
    \/ EnableEdits
    \/ RunBegins
    \/ RunTooOld
    \/ \E failed \in BOOLEAN : RunNothing(failed)
    \/ RunStale
    \/ \E edited \in BOOLEAN : RunRewrite(edited)
    \/ RunEnds

SpecStale == InitRunSpec /\ [][NextStale]_vars

(***************************************************************************)
(* Specification SpecNest: Fixer.Fix on documents whose inlines nest        *)
(* (emphasis and links hold inlines of their own), with AutoLink and        *)
(* ReplaceText rules.  mtrace holds the document after each rule; mdoc is   *)
(* the document after the last rule, before it is printed.                  *)
(***************************************************************************)
PlainNode(text) == [t |-> "Plain", text |-> text, url |-> <<>>, inner |-> <<>>]
EmphNode(inner) == [t |-> "Emph", text |-> <<>>, url |-> <<>>, inner |-> inner]
LinkNode(inner, url) == [t |-> "Link", text |-> <<>>, url |-> url, inner |-> inner]

\* whether a Link is among the inlines xs or below them
RECURSIVE HasLink(_)
HasLink(xs) ==
    xs # <<>> /\ (Head(xs).t = "Link" \/ HasLink(Head(xs).inner) \/ HasLink(Tail(xs)))

\* the inlines of nesting depth at most n that the parser can give: a link
\* holds no link
RECURSIVE InlinesAt(_)
InlinesAt(n) ==
    IF n = 0 THEN {PlainNode(x) : x \in TextsUpTo(MaxText) \ {<<>>}}
    ELSE LET below == InlinesAt(n - 1)
         IN  InlinesAt(0)
             \cup {EmphNode(<<x>>) : x \in below}
             \cup {LinkNode(<<x>>, <<u>>) : x \in {y \in below : ~HasLink(<<y>>)}, u \in Tokens}

NestDocs ==
    [1..1 -> InlinesAt(MaxDepth)]
    \cup {d \in UNION {[1..m -> InlinesAt(1)] : m \in 2..MaxNodes} : Parsed(d)}

NestRules ==
    {[k |-> "ReplaceText", pat |-> p, repl |-> <<x>>] : p \in Tokens, x \in Tokens}
    \cup {[k |-> "AutoLink", pat |-> p, repl |-> <<u>>] : p \in Tokens, u \in URLTokens}

\* the fix function of AutoLink on a Plain with a match, on nested inlines
RECURSIVE NestLinkMatches(_, _, _, _)
NestLinkMatches(text, p, url, before) ==
    IF text = <<>> THEN <<PlainNode(before)>>
    ELSE IF Head(text) = p
    THEN (IF before = <<>> THEN <<>> ELSE <<PlainNode(before)>>)
         \o <<LinkNode(<<PlainNode(<<p>>)>>, url)>>
         \o NestLinkMatches(Tail(text), p, url, <<>>)
    ELSE NestLinkMatches(Tail(text), p, url, before \o <<Head(text)>>)

\* fix(x, flags) for rule r: <<changed, the inlines that take the place of x>>
NestFix(r, x, flagLink) ==
    IF x.t = "Plain" /\ Matches(x.text, r.pat) /\ (r.k = "AutoLink" => ~flagLink)
    THEN IF r.k = "AutoLink"
         THEN <<TRUE, NestLinkMatches(x.text, r.pat, r.repl, <<>>)>>
         ELSE <<TRUE, <<[x EXCEPT !.text = ReplaceAll(x.text, r.pat, r.repl)]>>>>
    ELSE <<FALSE, <<x>>>>

\* the value of the counter link while fixInlines runs on the inlines inside x:
\* "link++; fixInlines(&x.Inner); link--" for a Link, as it is for the others
InnerLinkResets(x, link) == IF x.t = "Link" THEN link + 1 ELSE 0
InnerLink(x, link) == IF x.t = "Link" THEN link + 1 ELSE link

\* fixInlines(inlines) with the counter at link: <<fixed, the inlines after it>>
RECURSIVE FixInlines(_, _, _)
FixInlines(r, xs, link) ==
    IF xs = <<>> THEN <<FALSE, <<>>>>
    ELSE LET x == Head(xs)
             in == FixInlines(r, x.inner, InnerLink(x, link))
             fx == NestFix(r, [x EXCEPT !.inner = in[2]], link > 0)
             rest == FixInlines(r, Tail(xs), link)
         IN  <<in[1] \/ fx[1] \/ rest[1], fx[2] \o rest[2]>>

\* the documents after 0, 1, ... rules of rs have been run over d
RECURSIVE NestTrace(_, _)
NestTrace(rs, d) ==
    IF rs = <<>> THEN <<d>> ELSE <<d>> \o NestTrace(Tail(rs), FixInlines(Head(rs), d, 0)[2])

\* f.Fix on the document d
FixNested(d) ==
    /\ mcalls = 0
    /\ mtrace' = NestTrace(mrules, d)
    /\ mfixed' = \E i \in 1..Len(mrules) : FixInlines(mrules[i], NestTrace(mrules, d)[i], 0)[1]
    /\ mdoc' = NestTrace(mrules, d)[Len(mrules) + 1]
    /\ mcalls' = 1
    /\ UNCHANGED <<fixOthers, mrules>>

NextNest ==
    \/ \E r \in NestRules : AddRule(r)
    \/ \E d \in NestDocs : FixNested(d)

SpecNest == InitFix /\ [][NextNest]_vars

(***************************************************************************)
(* Specification SpecVSet: goroutines call Set on one memVectorDB, each     *)
(* call in its two steps, while others call Get.                            *)
(***************************************************************************)
vsetOthers == <<timedVars, watcherVars, clientVars, nowVars, rwVars, syncVars, dedupVars,
                runVars, embedVars, corpusVars, rangeVars, flushVars, callVars, rewriteVars,
                scanVars, httpVars, staleVars,
    skipVars,
    addVars,
    relVars>>

\* Set: db.storage.Set(ordered.Encode("llm.Vector", db.namespace, id), vec.Encode())
SetStore(g, id, vec) ==
    /\ vspc[g].pc = "idle"
    /\ vstore' = DBSet(vstore, <<VNamespace, id>>, vec)
    /\ vspc' = [vspc EXCEPT ![g] = [pc |-> "stored", id |-> id, vec |-> vec]]
    /\ UNCHANGED <<vsetOthers, vcache, searchVars, vbatchVars>>

\* Set: db.mu.Lock(); db.cache[id] = slices.Clone(vec); db.mu.Unlock()
SetCache(g) ==
    /\ vspc[g].pc = "stored"
    /\ vcache' = DBSet(vcache, vspc[g].id, vspc[g].vec)
    /\ vspc' = [vspc EXCEPT ![g] = NotInSet]
    /\ UNCHANGED <<vsetOthers, vstore, searchVars, vbatchVars>>

NextVSet ==
    \/ \E g \in 1..NSetters, id \in BatchIds, vec \in BatchVectors : SetStore(g, id, vec)
    \/ \E g \in 1..NSetters : SetCache(g)
    \/ \E id \in BatchIds : VectorGet(id)

SpecVSet == Init /\ [][NextVSet]_vars

(***************************************************************************)
(* Specification SpecSkip: one Poster runs over the mirrored events again   *)
(* and again; pskip keeps the events it left because the lookup of the      *)
(* vector or the post of the comment failed.                                *)
(***************************************************************************)
Skipped(p) == [pskip EXCEPT ![pname[p]] = @ \cup {ppos[p]}]

SkipLookupFailed(p) == LookupFailed(p, Skipped(p))

SkipPostFailed(p) == CommentFailed(p, Skipped(p))

NextSkip ==
    \/ \E i \in Issues, k \in EventKinds : MirrorEvent(i, k)
    \/ EnablePosts(1)
    \/ PosterRecent(1)
    \/ PosterSkip(1)
    \/ PosterAlreadyPosted(1)
    \/ PosterConsider(1)
    \/ SkipLookupFailed(1)
    \/ PosterNoResults(1)
    \/ PosterDryRun(1)
    \/ SkipPostFailed(1)
    \/ PostIssueComment(1)
    \/ PosterMarkPosted(1)
    \/ PosterReturn(1)

SpecSkip == InitRunSpec /\ [][NextSkip]_vars

(***************************************************************************)
(* Specification SpecEmbedAdd: goroutines add new documents with            *)
(* Corpus.Add, each Add in its two steps (timed.Set stages the rows with    *)
(* the time now() gave, b.Apply() writes them), while embeddocs.Sync runs   *)
(* again and again with an embedder that answers every call in full.  A    *)
(* document is named by its DBTime.                                         *)
(***************************************************************************)
addOthers == <<timedVars, watcherVars, clientVars, nowVars, rwVars, syncVars, dedupVars,
               runVars, vectorVars, corpusVars, rangeVars, flushVars, callVars, rewriteVars,
               scanVars, vbatchVars, httpVars, staleVars, vsetVars, skipVars,
    relVars>>

\* Add as far as timed.Set: now() is read and the rows are staged on b
AddStage(g) ==
    /\ apc[g] = 0
    /\ aclock < NDocs
    /\ aclock' = aclock + 1
    /\ apc' = [apc EXCEPT ![g] = aclock + 1]
    /\ UNCHANGED <<addOthers, embedVars, avis>>

\* Add: b.Apply()
AddApply(g) ==
    /\ apc[g] # 0
    /\ avis' = avis \cup {apc[g]}
    /\ apc' = [apc EXCEPT ![g] = 0]
    /\ UNCHANGED <<addOthers, embedVars, aclock>>

\* the documents an iteration of w.Recent() that has come to time t has ahead
DocsAhead(t) == {d \in avis : d > t}

\* Sync is called
SyncBegins ==
    /\ EmbedSync
    /\ UNCHANGED addVars

\* a round of the first loop: the next document joins the batch, and a full
\* batch is flushed
SyncRound ==
    /\ epc = "first"
    /\ DocsAhead(epos) # {}
    /\ LET d == SetMin(DocsAhead(epos))
           batch == Append(ebatch, d)
       IN  /\ epos' = d
           /\ IF Len(batch) >= batchSize
              THEN /\ Flush(batch, Len(batch), FALSE)
                   /\ ebatch' = <<>>
              ELSE /\ ebatch' = batch
                   /\ UNCHANGED <<ecur, evecs, ecalls, elast, elog, eerr, estart>>
    /\ UNCHANGED <<addOthers, addVars, edocs, epc>>

\* the first loop's Recent is exhausted; "if len(batch) > 0"
SyncFirstEnds ==
    /\ epc = "first"
    /\ DocsAhead(epos) = {}
    /\ epc' = AfterFirstLoop(ebatch)
    /\ UNCHANGED <<addOthers, addVars, edocs, ecur, evecs, epos, ebatch, ecalls, elast, elog, eerr, estart>>

\* the second loop: the new Recent iteration yields a document, flush, break
SyncRest ==
    /\ epc = "second"
    /\ DocsAhead(ecur) # {}
    /\ Flush(ebatch, Len(ebatch), FALSE)
    /\ ebatch' = <<>>
    /\ epc' = "idle"
    /\ UNCHANGED <<addOthers, addVars, edocs, epos>>

NextEmbedAdd ==
    \/ \E g \in 1..NAdders : AddStage(g)
    \/ \E g \in 1..NAdders : AddApply(g)
    \/ SyncBegins
    \/ SyncRound
    \/ SyncFirstEnds
    \/ SyncRest

SpecEmbedAdd == InitEmbedSpec /\ [][NextEmbedAdd]_vars

(***************************************************************************)
(* Specification SpecRelated: vectors of unit length are set in the vector  *)
(* database, and Poster.Run builds the list of related issues for an issue  *)
(* whose vector is stored.                                                  *)
(***************************************************************************)
relOthers == <<timedVars, watcherVars, clientVars, nowVars, rwVars, syncVars, dedupVars,
               runVars, embedVars, corpusVars, rangeVars, flushVars, callVars, rewriteVars,
               scanVars, vbatchVars, httpVars, staleVars, vsetVars, skipVars, addVars>>

\* the vectors an embedder gives: of length one
UnitVectors == {v \in Vectors : Dot(v, v) = 1}

\* p.vdb.Search(target, n) on the cache: top.Add of every vector as long as
\* the target, then Take
RECURSIVE SearchOf(_, _, _, _)
SearchOf(cache, ids, target, n) ==
    IF ids = {} THEN <<>>
    ELSE LET id == CHOOSE x \in ids : TRUE
             best == SearchOf(cache, ids \ {id}, target, n)
         IN  IF Eligible(cache[id], target)
             THEN TopAdd(best, n, [ID |-> id, Score |-> Dot(target, cache[id])])
             ELSE best

\* "if r.Score < p.scoreCutoff", for a cutoff above 0 and at most 1
BelowCutoff(score) == score < 1

\* "if len(results) > 0 && results[0].ID == u { results = results[1:] }"
DropSelf(results, u) ==
    IF Len(results) > 0 /\ results[1].ID = u THEN Tail(results) ELSE results

\* the results before the first one below the cutoff
RECURSIVE AboveCutoff(_)
AboveCutoff(results) ==
    IF results = <<>> \/ BelowCutoff(Head(results).Score) THEN <<>>
    ELSE <<Head(results)>> \o AboveCutoff(Tail(results))

\* "if len(results) > p.maxResults { results = results[:p.maxResults] }"
AtMost(results, n) == SubSeq(results, 1, IF Len(results) < n THEN Len(results) ELSE n)

\* Run on an event of issue u, from p.vdb.Get(u) to the list the comment is
\* written from; with an empty list there is no comment
RelatedList(u) ==
    /\ vpc # "scan"
    /\ DBHas(vcache, u)
    /\ relfor' = u
    /\ rellist' = AtMost(AboveCutoff(DropSelf(SearchOf(vcache, DOMAIN vcache, vcache[u], MaxResults + SearchExtra), u)),
                       MaxResults)
    /\ UNCHANGED <<relOthers, vectorVars>>

NextRelated ==
    \/ \E id \in DocIds, vec \in UnitVectors : VectorSet(id, vec)
    \/ \E u \in DocIds : RelatedList(u)

SpecRelated == InitVectorSpec /\ [][NextRelated]_vars

\* ---- claims ----
(***************************************************************************)
(* Claims about the timed rows and the batches (specification Spec).        *)
(***************************************************************************)
\* the by-time rows of key k
IndexRows(k) == {y \in DOMAIN data : Len(y) = 3 /\ y[1] = KindByTime /\ y[3] = k}

AllApplied == \A b \in Batches : nstaged[b] = 0

\* C3, as claimed: once the staged batches have been applied, a key with a
\* primary row has exactly one by-time row, at the primary row's modtime, and a
\* key without a primary row has no by-time row.
C3_ExactlyOneIndexRow ==
    AllApplied =>
        \A k \in Keys :
            IF DBHas(data, PrimKey(k))
            THEN IndexRows(k) = {TimeKey(PrimTime(data, k), k)}
            ELSE IndexRows(k) = {}

\* C3, amended: whenever a key has a primary row, the by-time row at the
\* primary row's modtime exists (further by-time rows of the key may exist).
C3_PrimaryHasIndexRow ==
    \A k \in Keys :
        DBHas(data, PrimKey(k)) => TimeKey(PrimTime(data, k), k) \in IndexRows(k)

\* C3 witness: everything is applied, a key has its primary row, the by-time row
\* at its modtime, and a second, stale by-time row besides.
C3_Witness ==
    /\ AllApplied
    /\ \E k \in Keys :
          /\ DBHas(data, PrimKey(k))
          /\ TimeKey(PrimTime(data, k), k) \in IndexRows(k)
          /\ Cardinality(IndexRows(k)) = 2

\* C5, as claimed: a batch holds exactly the operations staged on it since its
\* last Apply, so that Apply leaves it empty and the next Apply executes only
\* what was staged in between.
C5_BatchHoldsOnlyNewOps == \A b \in Batches : Len(ops[b]) = nstaged[b]

(***************************************************************************)
(* Claims about the watchers (specification SpecWatch).                     *)
(***************************************************************************)
\* C1, as claimed (its completeness half): the cursor never passes an entry
\* that no iteration has emitted, that is, every entry with its one by-time row
\* whose modtime is at or below the cursor has been emitted with that modtime.
C1_NoEntrySkipped ==
    \A k \in Keys :
        (/\ DBHas(data, PrimKey(k))
         /\ IndexRows(k) = {TimeKey(PrimTime(data, k), k)}
         /\ PrimTime(data, k) <= Cutoff(data))
            => <<k, PrimTime(data, k)>> \in emitted

Iterating(w) == wpc[w] \in {"scan", "body"}

C6_ReturnedStrictlyIncreasing ==
    \A i \in 1..Len(returned), j \in 1..Len(returned) :
        i < j => returned[i] < returned[j]

\* two calls have returned, the second one bumped past a clock that had not
\* advanced, and a concurrent call is about to lose its CompareAndSwap
C6_Witness ==
    /\ Len(returned) >= 2
    /\ returned[2] = returned[1] + 1
    /\ \E g \in Procs : npc[g] = "cas" /\ lastTime # nold[g]

(***************************************************************************)
(* Claims about the lock table (specification SpecLock).                    *)
(***************************************************************************)
Holders(name) == {c \in Clients : cpc[c] = "held" /\ cname[c] = name}

C4_ScanSeesAllOrNone ==
    rpc = "done" => \E S \in rsnaps : rseen = KeysInOrder(ScanRange(S, ScanLo, ScanHi))

\* C4: whenever a Get or one step of a Scan reads the rows, no Apply is under
\* way: the rows it reads are those left by whole batches, never the rows
\* after only a part of a batch's operations.
C4_ReadsSeeWholeBatches ==
    ReaderIn => apos = 0 /\ data = committed

\* a Scan reads on after an Apply of two or more operations that ran between
\* two of its yields and changed the rows
C4_Witness ==
    /\ rpc = "locked"
    /\ rseen # <<>>
    /\ Cardinality(rsnaps) >= 2
    /\ Len(ops[1]) >= 2

(***************************************************************************)
(* Claims about the GitHub mirror (SpecSync, SpecResume).                   *)
(***************************************************************************)
\* C8: the stored EventID of the project never decreases, whatever the event
\* feed answers from run to run.
C8_EventIDNeverDecreases == [][EventID' >= EventID]_vars

\* the last SyncProject went through the full scan and returned nil
FullScanSucceeded == spc = "idle" /\ result = "ok" /\ ranFull

\* C9: after a SyncProject that went through the full scan and returned nil,
\* every remote event of the project with an id up to the stored EventID is
\* in the store.
C9_FullScanStoresAllUpToEventID ==
    FullScanSucceeded =>
        \A id \in Existing(rissue) : id <= EventID => <<rissue[id], id>> \in events

\* a full scan has succeeded with events of two issues at or below the cursor
C9_Witness ==
    /\ FullScanSucceeded
    /\ EventID >= 2
    /\ \E a \in Existing(rissue), b \in Existing(rissue) :
           a < b /\ b <= EventID /\ rissue[a] # rissue[b]

\* the rows one uninterrupted SyncProject stores for the project as it is
AllRemoteEvents == {<<rissue[id], id>> : id \in Existing(rissue)}

\* C10: running SyncProject again and again, with the test hook stopping each
\* run after one issue, eventually ends in a run that returns nil, and the
\* stored events are then those a single uninterrupted run stores.
C10_ResumeConverges ==
    /\ <>(spc = "idle" /\ result = "ok")
    /\ [](spc = "idle" /\ result = "ok" => events = AllRemoteEvents)

\* the events /issues/events lists are all newer than the stored EventID
FeedAheadOfEventID ==
    /\ EventID > 0
    /\ FeedOf(rissue) # <<>>
    /\ \A i \in 1..Len(FeedOf(rissue)) : FeedOf(rissue)[i] > EventID

\* C26: after an incremental read of the event feed has failed to reach the
\* stored EventID, that run of SyncProject or a later one goes through the full
\* scan.
C26_LostSyncLeadsToFullScan == (spc = "idle" /\ result = "lost sync" /\ EventID > 0) ~> ranFull

Occurrences(q, k) == Cardinality({i \in 1..Len(q) : q[i] = k})

\* C11, as claimed: once a pass has ended, an event downloaded more than once
\* has one primary row and exactly one by-time row, and EventsAfter(0, "")
\* yields it exactly once.
C11_OneRowEach ==
    nstaged[1] = 0 =>
        \A k \in Keys :
            downloads[k] > 1 =>
                /\ DBHas(data, PrimKey(k))
                /\ Cardinality(IndexRows(k)) = 1
                /\ Occurrences(EventsAfter(data, 0), k) = 1

\* C11, amended: once a pass has ended, an event downloaded more than once has
\* one primary row and the by-time row at its modtime, and EventsAfter(0, "")
\* yields it exactly once (by-time rows of earlier downloads may remain).
C11_OnePrimaryYieldedOnce ==
    nstaged[1] = 0 =>
        \A k \in Keys :
            downloads[k] > 1 =>
                /\ DBHas(data, PrimKey(k))
                /\ TimeKey(PrimTime(data, k), k) \in IndexRows(k)
                /\ Occurrences(EventsAfter(data, 0), k) = 1

\* an event downloaded twice in one pass and once more in a later pass
C11_Witness ==
    /\ nstaged[1] = 0
    /\ \E k \in Keys :
          /\ downloads[k] >= 3
          /\ Cardinality(IndexRows(k)) = 2
          /\ Occurrences(EventsAfter(data, 0), k) = 1

\* C12: a Run that began when an issue already had a posted comment never
\* posts on that issue, whatever the name of its Poster and whichever event of
\* the issue it is looking at.
C12_NoLaterRunPostsAgain ==
    [][\A p \in Procs :
          (ppc[p] = "consider" /\ ppc'[p] = "posted")
              => pevents[ppos[p]].issue \notin pbefore[p]]_vars

\* C13: an issue has its ("triage.Posted", project, issue) row only if a
\* comment was posted on it, and every issue with a posted comment has the row
\* as soon as the Run that posted it has gone past the db.Set following the
\* post; a dry run, a failed post and a skipped event write no row.
C13_PostedRowIffComment ==
    \A i \in Issues :
        /\ posted[i] => posts[i] > 0
        /\ (/\ posts[i] > 0
            /\ ~\E p \in Procs : ppc[p] = "posted" /\ pevents[ppos[p]].issue = i)
               => posted[i]

\* C13: issue 1 has a comment and its row, and a Run has gone through a
\* matching event of issue 2 without posting (dry run or failed post)
C13_Witness ==
    /\ posted[1] /\ posts[1] > 0
    /\ ~posted[2] /\ posts[2] = 0
    /\ \E p \in Procs :
          /\ ppc[p] = "loop"
          /\ ppos[p] > 0
          /\ pevents[ppos[p]] = [issue |-> 2, kind |-> "match"]

\* C14: a step of Run of a Poster without EnablePosts leaves the comments on
\* GitHub, the Posted rows and every watcher cursor as they are, and a step of
\* Run of a Fixer without EnableEdits leaves the edits and its cursor as they are.
C14_DisabledRunChangesNothing ==
    [][/\ \A p \in Procs :
             (~ppost[p] /\ (ppc'[p] # ppc[p] \/ ppos'[p] # ppos[p]))
                 => (posts' = posts /\ posted' = posted /\ pcur' = pcur)
       /\ (~fedit /\ (fpc' # fpc \/ fpos' # fpos))
                 => (edits' = edits /\ fcur' = fcur)]_vars

\* C14: a Poster without EnablePosts has walked through all events, one of them
\* without similar issues and one with a comment to post, and its cursor is
\* still at the start
C14_Witness ==
    \E p \in Procs :
        /\ ~ppost[p]
        /\ ppc[p] = "loop"
        /\ Len(pevents) = NEvents
        /\ ppos[p] = NEvents
        /\ \E t \in 1..NEvents : pevents[t].kind = "noresult"
        /\ \E t \in 1..NEvents : pevents[t].kind = "match"
        /\ pcur[pname[p]] = 0

\* the cached vectors Search considers, and the score of each
EligibleIds == {id \in DOMAIN vcache : Len(vcache[id]) = Len(vtarget)}
ScoreOf(id) == Dot(vtarget, vcache[id])

\* what a returned list is apart from its order: min(n, eligible) results, each
\* an eligible id with its dot product, no id twice, and no eligible id left
\* out that beats a returned one by score (or, at equal score, by later id)
SearchReturnsBest ==
    /\ Len(vfound) = (IF Cardinality(EligibleIds) < vn THEN Cardinality(EligibleIds) ELSE vn)
    /\ \A i \in 1..Len(vfound) :
          /\ vfound[i].ID \in EligibleIds
          /\ vfound[i].Score = ScoreOf(vfound[i].ID)
    /\ \A i, j \in 1..Len(vfound) : i # j => vfound[i].ID # vfound[j].ID
    /\ \A id \in EligibleIds \ {vfound[i].ID : i \in 1..Len(vfound)} :
          \A i \in 1..Len(vfound) : ScoreOf(id) <= vfound[i].Score

C16_TooManyVectorsWriteNothing ==
    [][(ecalls' = ecalls + 1 /\ elast'[1] > elast'[3])
          => /\ evecs' = evecs
             /\ ecur' = ecur
             /\ elog' = "embeddocs length mismatch"]_vars

\* C16: EmbedDocs has answered a batch of batchSize documents with more
\* vectors, and no document has a vector
C16_Witness ==
    /\ ecalls > 0
    /\ elast[3] = batchSize
    /\ elast[1] > batchSize
    /\ evecs = {}
    /\ ecur = 0

\* C17: a flush whose EmbedDocs answer is an error with k vectors writes just
\* those under the first k ids of the batch and leaves the cursor, and from
\* then on the Sync makes no further EmbedDocs call and never moves the
\* cursor, so that the next Sync starts below the failed batch.
C17_ErrorWritesPrefixAndAborts ==
    [][/\ (ecalls' = ecalls + 1 /\ elast'[2] /\ elast'[1] <= elast'[3] /\ eerr = <<>>)
             => /\ evecs' = evecs \cup {eerr'[i] : i \in 1..elast'[1]}
                /\ ecur' = ecur
       /\ eerr # <<>> => (ecalls' = ecalls \/ ecalls' = 0) /\ ecur' = ecur]_vars

\* C18: an Add of a document that exists with the same title and text leaves
\* every row (the document's DBTime and index row with them) and the clock as
\* they are, so that no DocsAfter yields anything it did not yield before; any
\* other Add stores the document under a DBTime above every DBTime handed out
\* before, with that DBTime's index row as the only index row of the document,
\* and DocsAfter from the old clock value yields just this document.
C18_AddNoOpOrFresh ==
    [][\A id \in Keys, v \in DocVals :
          cadd' = <<id, v>> =>
             IF DBHas(data, PrimKey(id)) /\ data[PrimKey(id)][2] = v
             THEN /\ data' = data
                  /\ lastTime' = lastTime
                  /\ \A t \in 0..MaxTime : DocsAfter(data', t) = DocsAfter(data, t)
             ELSE /\ data'[PrimKey(id)][2] = v
                  /\ data'[PrimKey(id)][1] > lastTime
                  /\ \A k \in Keys : DBHas(data, PrimKey(k)) => PrimTime(data, k) < PrimTime(data', id)
                  /\ \A t \in Times : DBHas(data', TimeKey(t, id)) <=> t = PrimTime(data', id)
                  /\ DocsAfter(data', lastTime) = <<id>>]_vars

\* C18: document 1 was added, then replaced by an Add with another text, and
\* the last Add repeated that text
C18_Witness ==
    /\ DBHas(data, PrimKey(1))
    /\ PrimTime(data, 1) > 1
    /\ cadd = <<1, data[PrimKey(1)][2]>>
    /\ DBHas(data, PrimKey(2))
    /\ PrimTime(data, 2) < PrimTime(data, 1)

\* the stored keys k with lo <= k <= hi
InRange(d, lo, hi) == {k \in DOMAIN d : LexLE(lo, k) /\ LexLE(k, hi)}

\* C19: Scan(start, end) yields the stored keys with start <= key <= end, each
\* once, in ascending order, and DeleteRange(start, end) removes those rows
\* and leaves every other row as it is.
C19_ScanAndDeleteRangeInclusive ==
    [][\A lo \in BoundKeys, hi \in BoundKeys :
          /\ rop' = <<"scan", lo, hi>> =>
                /\ {sfound'[i] : i \in 1..Len(sfound')} = InRange(data, lo, hi)
                /\ \A i \in 1..Len(sfound') - 1 : LexLess(sfound'[i], sfound'[i + 1])
          /\ rop' = <<"delrange", lo, hi>> =>
                /\ DOMAIN data' = DOMAIN data \ InRange(data, lo, hi)
                /\ \A k \in DOMAIN data' : data'[k] = data[k]]_vars

\* the Watcher goroutines inside a Recent iteration
InRecent == {w \in Watchers : wpc[w] \in {"scan", "body"}}

\* C20: however a Recent iteration ends (exhausted, break, panic in the loop
\* body), the step that ends it flushes the database and leaves the watcher
\* unlocked; and whenever no iteration is under way the lock of (kind, name)
\* is free, so that every Recent or Restart waiting for it can go on.
C20_EndOfRecentReleases ==
    [][/\ \A w \in Watchers :
             (wpc[w] \in {"scan", "body"} /\ wpc'[w] \notin {"scan", "body"})
                 => /\ disk' = data'
                    /\ ~wlocked'[w]
                    /\ wended'[w] \in {"exhausted", "break", "panic"}
       /\ (\A w \in Watchers : wpc'[w] \notin {"scan", "body"})
             => \A w \in Watchers :
                   wpc'[w] \in {"lockRecent", "lockRestart"} => MutexFree(mutexes', wmu'[w])]_vars

\* C20: one watcher's iteration ended by a panic in the loop body, after a
\* MarkOld that is now flushed, and the other watcher of the same (kind, name)
\* is inside its iteration
C20_Witness ==
    /\ wended[1] = "panic"
    /\ wpc[1] = "idle"
    /\ DBHas(disk, WatcherKey)
    /\ wpc[2] = "body"

(***************************************************************************)
(* Claims about the calls on a Watcher (specifications SpecMisuse and       *)
(* SpecRestart).                                                            *)
(***************************************************************************)
\* C21: a MarkOld outside an iteration panics ("MarkOld unlocked"), and a
\* Restart or a Recent inside an iteration of the same Watcher panics with
\* "Watcher already locked"; the step of the panic leaves the cursor row and
\* the whole state of the watchers and locks unchanged, so that an enclosing
\* iteration is still in its loop body holding the lock, and no goroutine ever
\* blocks on the lock it holds itself.
C21_MisusePanicsAndIterationGoesOn ==
    [][\A w \in Watchers :
          /\ (wpc[w] = "idle" /\ wcall'[w] # wcall[w] /\ wcall'[w][1] = "MarkOld")
                => /\ wcall'[w][3] = "timed.Watcher.MarkOld unlocked"
                   /\ UNCHANGED <<data, watcherVars, flushVars>>
          /\ (wpc[w] = "body" /\ wcall'[w] # wcall[w] /\ wcall'[w][1] \in {"Restart", "Recent"})
                => /\ wcall'[w][3] = "timed.Watcher already locked"
                   /\ UNCHANGED <<data, watcherVars, flushVars>>
                   /\ wpc'[w] = "body"
                   /\ wlocked'[w]
                   /\ mutexes'[locks'[WatcherKey]]
          /\ wpc'[w] # "blocked"]_vars

\* C21: the first goroutine's last call was a Recent inside its own iteration,
\* which panicked; that iteration has since yielded its entries and ended by
\* exhaustion, releasing the lock, and the second goroutine is now iterating
C21_Witness ==
    /\ wcall[1] = <<"Recent", 0, AlreadyLocked>>
    /\ wpc[1] = "idle"
    /\ ~wlocked[1]
    /\ wended[1] = "exhausted"
    /\ wseen[1] # {}
    /\ wpc[2] = "body"

\* C22: a MarkOld(t) inside an iteration sets the cursor to t when t is above
\* the cursor and changes no row otherwise; all through an iteration the
\* cursor is the largest of its value at the start and the times passed to
\* MarkOld; and the cursor goes down only in a step of Restart.
C22_CursorIsMaxOfMarks ==
    [][/\ \A w \in Watchers :
             (wcall'[w] # wcall[w] /\ wcall'[w][1] = "MarkOld" /\ wcall'[w][3] = "ok")
                => IF wcall'[w][2] > Cutoff(data)
                   THEN Cutoff(data') = wcall'[w][2]
                   ELSE data' = data
       /\ \A w \in Watchers : wlocked'[w] => Cutoff(data') = wmark'[w]
       /\ Cutoff(data') < Cutoff(data)
             => \E w \in Watchers : wpc[w] = "idle" /\ wcall'[w] = <<"Restart", 0, "ok">>]_vars

\* C22: inside its iteration the first goroutine has called MarkOld with a time
\* below the cursor it had set before, and the cursor has stayed
C22_Witness ==
    /\ wpc[1] = "body"
    /\ wcall[1] = <<"MarkOld", 1, "ok">>
    /\ wmark[1] = MaxTime
    /\ Cutoff(data) = MaxTime
    /\ wpc[2] = "idle"
    /\ wcall[2] = <<>>

\* C23: when the first iteration since a Restart is over, it has yielded every
\* entry that was stored when it began and has not been written again since.
C23_AfterRestartEmitsAll ==
    [][(wlocked[1] /\ ~wlocked'[1] /\ wfirst[1])
          => (wbase[1] \cap Entries(data')) \subseteq wseen'[1]]_vars

(***************************************************************************)
(* Claims about commentfix.Fixer.Fix (specification SpecFix).               *)
(***************************************************************************)
\* what ReplaceText is to leave alone, in document order: the text of inline
\* code and of code blocks, the URL of links and autolinks
RECURSIVE Protected(_)
Protected(d) ==
    IF d = <<>> THEN <<>>
    ELSE (CASE Head(d).t \in {"Code", "CodeBlock"} -> <<<<Head(d).t, Head(d).text>>>>
            [] Head(d).t \in {"Link", "AutoLink"} -> <<<<Head(d).t, Head(d).url>>>>
            [] OTHER -> <<>>)
         \o Protected(Tail(d))

\* C24: in every Fix, the run of a ReplaceText rule over the document leaves
\* the text of the inline code and of the code blocks and the URLs of the
\* links and autolinks as they were; and when all rules are ReplaceText rules,
\* the text Fix returns has them as the text it was given.
C24_ReplaceTextLeavesCodeAndURLs ==
    mcalls > 0 =>
        /\ \A i \in 1..Len(mrules) :
              mrules[i].k = "ReplaceText" => Protected(mtrace[i + 1]) = Protected(mtrace[i])
        /\ (\A i \in 1..Len(mrules) : mrules[i].k = "ReplaceText")
              => Protected(mdoc) = Protected(mtrace[1])

\* C24: a ReplaceText rule has rewritten the plain text of a document that has
\* the rule's pattern in inline code and in the URL of a link as well
C24_Witness ==
    /\ mcalls = 1
    /\ mfixed
    /\ mrules = <<[k |-> "ReplaceText", pat |-> "a", repl |-> <<"b">>]>>
    /\ mtrace[1] = <<Plain(<<"a">>), [t |-> "Code", text |-> <<"a">>, url |-> <<>>]>>
    /\ mdoc = <<Plain(<<"b">>), [t |-> "Code", text |-> <<"a">>, url |-> <<>>]>>

Produced(rs) == UNION {{rs[i].repl[j] : j \in 1..Len(rs[i].repl)} : i \in 1..Len(rs)}

CurrentEntries(d, t, filter) ==
    {[ModTime |-> PrimTime(d, k), Key |-> k, Val |-> d[PrimKey(k)][2]] :
        k \in {x \in Keys : DBHas(d, PrimKey(x)) /\ PrimTime(d, x) > t /\ Pass(filter, x)}}

\* C28: ScanAfter(kind, t, filter) does not panic and yields, by strictly
\* ascending ModTime, exactly the entries whose primary row exists with a
\* modtime after t and whose key passes the filter, each with the value of
\* its primary row.
C28_ScanAfterYieldsCurrentEntries ==
    sres # NoScan =>
        /\ ~sres.panic
        /\ {sres.out[i] : i \in 1..Len(sres.out)} = CurrentEntries(data, sres.t, sres.filter)
        /\ \A i \in 1..Len(sres.out), j \in 1..Len(sres.out) :
               i < j => sres.out[i].ModTime < sres.out[j].ModTime

(***************************************************************************)
(* Claims about memVectorBatch (specification SpecVBatch).                  *)
(***************************************************************************)
\* the cache holds none or all of the vectors of the last Apply
WholeCache(cache, pre, last) == cache = pre \/ cache = CacheWith(pre, last)

\* C29: the cache changes only inside the locked section of the batch's Apply,
\* so a staged Set shows in no Get or Search; a MaybeApply that reports false
\* changes neither the DB nor the cache nor the batch; a Search holding the
\* read lock and every Get read a cache with all or none of the vectors of an
\* Apply; and when Apply (called directly or by a MaybeApply that reports
\* true) ends, the DB holds the batch's rows, the cache all its vectors, and
\* the batch is empty.
C29_BatchVisibleAllOrNone ==
    [][/\ (vcache' # vcache => vbpc = "copy")
       /\ ((vret' = "MaybeApply false" /\ vret' # vret)
              => UNCHANGED <<vcache, vstore, vw, vsb>>)
       /\ (vpc' = "scan" => WholeCache(vcache', vpre', vlast'))
       /\ (vget' # vget =>
              /\ WholeCache(vcache, vpre, vlast)
              /\ vget'[2] = DBHas(vcache, vget'[1])
              /\ vget'[2] => vget'[3] = vcache[vget'[1]])
       /\ ((vbpc = "copy" /\ vbpc' = "idle") =>
              /\ vcache' = CacheWith(vpre, vlast)
              /\ \A id \in DOMAIN vlast :
                    DBHas(vstore', <<VNamespace, id>>) /\ vstore'[<<VNamespace, id>>] = vlast[id]
              /\ vw' = <<>>)]_vars

\* C29: a MaybeApply that reported true has made two vectors visible, one of
\* them over an older one, and afterwards a Get and a Search have found them
C29_Witness ==
    /\ vret = "MaybeApply true"
    /\ vbpc = "idle"
    /\ DOMAIN vlast = {1, 2}
    /\ DOMAIN vpre = {1}
    /\ vpre[1] # vlast[1]
    /\ vget = <<1, TRUE, vlast[1]>>
    /\ vpc = "done"
    /\ Len(vfound) = 2

(***************************************************************************)
(* Claims about embeddocs.Sync with an embedder that answers in full        *)
(* (specification SpecEmbedAll).                                            *)
(***************************************************************************)
\* C30: with an embedder that returns one vector for every document, once
\* Sync has returned, every document that was newer than the "embeddocs"
\* cursor when the Sync began (every document the iteration was shown) has a
\* vector, those of a last batch shorter than batchSize included, nothing is
\* left in the batch, and the cursor is the DBTime of the last document shown;
\* and every EmbedDocs call embeds only documents newer than the cursor the
\* Sync began with, none of which has a vector yet, so a later Sync embeds
\* only what was added since.
C30_SyncEmbedsAllAndMarks ==
    [][/\ epc' = "idle" =>
              /\ (estart'[1] + 1)..estart'[2] \subseteq evecs'
              /\ evecs' = 1..epos'
              /\ ecur' = epos'
              /\ ebatch' = <<>>
       /\ ecalls' = ecalls + 1 =>
              /\ Cardinality(evecs' \ evecs) = elast'[3]
              /\ evecs' \ evecs \subseteq (estart[1] + 1)..epos']_vars

\* C30: a Sync has ended after a full batch and a last batch of one document,
\* and a second Sync has embedded the one document added after the first
C30_Witness ==
    /\ epc = "idle"
    /\ edocs = NDocs
    /\ evecs = 1..NDocs
    /\ ecur = NDocs
    /\ ecalls = 1
    /\ elast = <<1, FALSE, 1>>
    /\ estart = <<NDocs - 1, NDocs>>

(***************************************************************************)
(* Claims about the HTTP calls of the GitHub client (specification          *)
(* SpecHTTP).                                                               *)
(***************************************************************************)
\* C31: no HTTP call, GET or POST/PATCH, sends its request again after a
\* rate-limit response more than 20 times.
C31_RateLimitRetriesCapped == hretries <= RateLimitRetries

\* a response has arrived for a Client.get
GetAnswered == hpc = "sent" /\ hmeth = "GET"

\* Client.get sends the request again after a sleep of 2 seconds times the
\* number of server failures so far, or gives up at the third
RetriedOrThird ==
    IF hnfail + 1 < ServerFailures
    THEN hpc' = "sent" /\ hbackoff' = 2 * (hnfail + 1)
    ELSE hpc' = "done" /\ hres' = "status"

\* C32, as claimed: a GET answered with a 5xx status is sent again with a
\* backoff growing linearly, the third such answer ending the call with the
\* status; every other answer that is not 2xx, 304 or a rate limit ends the
\* call with the status at once.
C32_ServerErrorsRetriedThrice ==
    [][GetAnswered =>
          /\ hresp'.code \in 500..599 => RetriedOrThird
          /\ (hresp'.code \notin 200..299 \cup {304} \cup 500..599 /\ ~RateLimit(hresp'))
                => (hpc' = "done" /\ hres' = "status")]_vars

\* C32 as amended: a GET answered with 500 or 502 is sent again with a backoff
\* growing linearly, the third such answer of the call ending it with the
\* status; every other answer that is not 200, 304 or a rate limit, another
\* 5xx included, ends the call with the status at once.
C32_500And502RetriedThrice ==
    [][GetAnswered =>
          /\ hresp'.code \in {500, 502} => RetriedOrThird
          /\ (hresp'.code \notin {200, 304, 500, 502} /\ ~RateLimit(hresp'))
                => (hpc' = "done" /\ hres' = "status" /\ hretries' = hretries
                    /\ hnfail' = hnfail)]_vars

\* C32: a GET has ended with the status of its third server failure, having
\* slept 4 seconds before the last request
C32_Witness ==
    /\ hmeth = "GET"
    /\ hpc = "done"
    /\ hres = "status"
    /\ hresp.code = 502
    /\ hnfail = ServerFailures
    /\ hbackoff = 4

\* C33: after a rate-limit response whose reset time lies delta > 0 minutes
\* after the time of the response, the client sleeps delta + 1 minutes.
C33_SleepsUntilResetPlusMinute ==
    [][(hpc = "sent" /\ hresp'.code = 403 /\ hresp'.limited /\ hresp'.delta > 0)
          => hslept' = hresp'.delta + 1]_vars

\* C34: when Fixer.Run takes an event that is not too old and that Fix would
\* update, and the body on GitHub differs from the stored body, the step
\* edits nothing on GitHub and calls MarkOld for nothing: the bodies, the
\* edit counts, the cursor and the set of marked DBTimes stay as they were.
C34_StaleNotEditedNotMarked ==
    [][(/\ fpc = "loop"
        /\ fpos' = fpos + 1
        /\ ~pevents[fpos + 1].old
        /\ FixBody(pevents[fpos + 1].body)[2]
        /\ glive[pevents[fpos + 1].issue] # pevents[fpos + 1].body)
       => /\ glive' = glive
          /\ edits' = edits
          /\ fcur' = fcur
          /\ fmarks' = fmarks]_vars

\* an editing Run fixed and marked event 1, then found event 2 stale
C34_Witness ==
    /\ fedit
    /\ fpos = 2
    /\ flog = "commentfix stale"
    /\ fmarks = {1}
    /\ fcur = 1
    /\ edits[1] = 1
    /\ edits[2] = 0
    /\ glive[pevents[2].issue] # pevents[2].body


\* the Links among the inlines xs and below them, in document order
RECURSIVE LinksOf(_)
LinksOf(xs) ==
    IF xs = <<>> THEN <<>>
    ELSE (IF Head(xs).t = "Link" THEN <<Head(xs)>> ELSE LinksOf(Head(xs).inner))
         \o LinksOf(Tail(xs))

\* whether some Link of xs has a Link in its text, at any depth
LinkInLink(xs) == \E i \in 1..Len(LinksOf(xs)) : HasLink(LinksOf(xs)[i].inner)

\* C35: in every Fix on a parsed document, no document of the run has a link
\* inside the text of a link, and the run of an AutoLink rule leaves every
\* link the document had as it was, whatever lies in its text: the links of
\* the document after the rule, without the links the rule writes, are the
\* links of the document before it, without those.
C35_AutoLinkKeepsLinkText ==
    mcalls > 0 =>
        \A i \in 1..Len(mrules) :
            /\ ~LinkInLink(mtrace[i + 1])
            /\ mrules[i].k = "AutoLink" =>
                  LET new == LinkNode(<<PlainNode(<<mrules[i].pat>>)>>, mrules[i].repl)
                  IN  SelectSeq(LinksOf(mtrace[i + 1]), LAMBDA x : x # new)
                      = SelectSeq(LinksOf(mtrace[i]), LAMBDA x : x # new)

\* an AutoLink rule for "a" has run over a link with an emphasised "a" as its
\* text: Fix left the document as it was and reported nothing fixed
C35_Witness ==
    /\ mcalls = 1
    /\ mrules = <<[k |-> "AutoLink", pat |-> "a", repl |-> <<"c">>]>>
    /\ mtrace[1] = <<LinkNode(<<EmphNode(<<PlainNode(<<"a">>)>>)>>, <<"b">>)>>
    /\ mdoc = mtrace[1]
    /\ ~mfixed


(***************************************************************************)
(* Claims about the rows timed.Set, Delete and DeleteRange leave            *)
(* (specification Spec).                                                    *)
(***************************************************************************)
\* C36: no by-time row whose key has a primary row carries a modtime greater
\* than the modtime of that primary row (the case in which ScanAfter calls
\* db.Panic("timed.ScanAfter mismatch")).
C36_NoIndexRowNewerThanPrimary ==
    \A key \in DOMAIN data :
        (key[1] = KindByTime /\ DBHas(data, PrimKey(key[3])))
            => key[2] <= PrimTime(data, key[3])

(***************************************************************************)
(* Claims about memVectorDB.Set (specification SpecVSet).                   *)
(***************************************************************************)
\* C37: whenever no goroutine is inside Set, the cache holds an id exactly
\* when the store holds a vector under it in the namespace, and the vector
\* Get returns for the id is the vector of the store.
C37_CacheAgreesWithStore ==
    (\A g \in 1..NSetters : vspc[g].pc = "idle") =>
        \A id \in BatchIds :
            /\ DBHas(vcache, id) <=> DBHas(vstore, <<VNamespace, id>>)
            /\ DBHas(vcache, id) => vcache[id] = vstore[<<VNamespace, id>>]

(***************************************************************************)
(* Claims about the events Poster.Run leaves (specification SpecSkip).      *)
(***************************************************************************)
\* C38: the cursor of a Poster's watcher is never at or beyond the DBTime of
\* an event that a Run of the Poster left because the issue had no vector or
\* because PostIssueComment failed.
C38_CursorNotBeyondSkipped == \A n \in Names : \A t \in pskip[n] : pcur[n] < t

(***************************************************************************)
(* Claims about embeddocs.Sync beside Corpus.Add (specification             *)
(* SpecEmbedAdd).                                                           *)
(***************************************************************************)
\* C39: whenever no Sync and no Add is in progress, every document of the
\* corpus whose DBTime is at most the cursor of the "embeddocs" watcher has a
\* vector stored under its id.
C39_DocsUpToCursorHaveVectors ==
    (epc = "idle" /\ \A g \in 1..NAdders : apc[g] = 0) =>
        \A d \in avis : d <= ecur => d \in evecs

(***************************************************************************)
(* Claims about the list of related issues (specification SpecRelated).     *)
(***************************************************************************)
\* C40: the list of related issues that a comment is written from never
\* holds the issue the comment is for.
C40_ListNeverHoldsTheIssue == \A i \in 1..Len(rellist) : rellist[i].ID # relfor

====
